---- MODULE Spec2Model ----
(***************************************************************************)
(* sqlsaber-web: the streaming transcript aggregator                       *)
(* (streaming.py, DatabaseStreamingHandler), the query task                *)
(* (tasks.py, run_sqlsaber_query) and the thread endpoints that enqueue it *)
(* (api.py, create_thread / continue_thread), for one user and one thread. *)
(*                                                                         *)
(* A str is modelled as a sequence of characters; "" is <<>>.              *)
(***************************************************************************)
EXTENDS Integers, Sequences, FiniteSets, TLC

\* ------------------------------------------------------------------ bounds

\* Events the engine emits in one execution (specification SpecAgg).
MaxEvents == 4
\* Events the engine emits in one execution (specification Spec).
MaxLifeEvents == 1
\* Events the engine emits in one execution (specification SpecPoll).
MaxPollEvents == 2

\* ------------------------------------------------------------- vocabulary

None == "None"

PENDING == "pending"
RUNNING == "running"
COMPLETED == "completed"
ERROR == "error"

USER == "user"
ASSISTANT == "assistant"
THINKING == "thinking"
TOOL_CALL == "tool_call"
TOOL_RESULT == "tool_result"

\* str(e)[:1000] keeps at most this many characters (tasks.py 71).
ErrorLimit == 1000

TextPart == "TextPart"
ThinkingPart == "ThinkingPart"
ToolCallPart == "ToolCallPart"

\* The rows of UserDatabaseConnection, UserModelConfig and UserApiKey; ids
\* are assigned in creation order.
DbIds == {1, 2}
ModelIds == {1, 2}
KeyIds == {1}

\* The text a row was created with: a letter and the digit of its id.
RowText(letter, i) == <<letter, <<"1", "2">>[i]>>

\* The continue_thread requests of a run, and the run_sqlsaber_query jobs:
\* job 0 is the one create_thread defers, job r the one request r defers.
Reqs == {1, 2}
Jobs == {0} \cup Reqs

VARIABLES
    exists,          \* the Thread row has been created
    status,          \* Thread.status
    content,         \* Thread.content
    error_message,   \* Thread.error_message
    thread_db,       \* Thread.database_connection_id (0: NULL)
    thread_model,    \* Thread.model_config_id (0: NULL)
    messages,        \* the Message table, in id order
    task,            \* per job: the run_sqlsaber_query execution, once deferred
    req,             \* per request: the continue_thread call it serves
    conn_active,     \* UserDatabaseConnection.is_active
    model_active,    \* UserModelConfig.is_active
    key_active,      \* UserApiKey.is_active
    default_db,      \* UserSettings.default_database_connection_id (0: NULL)
    default_model,   \* UserSettings.default_model_config_id (0: NULL)
    conn_string,     \* UserDatabaseConnection.connection_string
    memory,          \* UserDatabaseConnection.memory
    model_name,      \* UserModelConfig.model_name
    api_key,         \* UserApiKey.api_key
    model_key,       \* UserModelConfig.api_key_id (0: the row is not created)
    response,        \* the last response of get_messages
    received,        \* the messages a polling reader has received, in order
    peer             \* another thread of the user, its messages and execution

vars == <<exists, status, content, error_message, thread_db, thread_model,
          messages, task, req, conn_active, model_active, key_active,
          default_db, default_model, conn_string, memory, model_name, api_key,
          model_key, response, received, peer>>

threadVars == <<exists, status, content, error_message, thread_db, thread_model>>
rowVars == <<conn_string, memory, model_name, api_key, model_key>>
configVars == <<conn_active, model_active, key_active, default_db, default_model,
                rowVars>>
readerVars == <<response, received>>

\* UserModelConfig.api_key: every model config references one API key.
ModelKey(m) == model_key[m]

\* ------------------------------------------------------------- streaming.py

\* Message.objects.acreate(thread_id=..., type=..., content=...)
Message(message_type, c) == [type |-> message_type, content |-> c]

\* DatabaseStreamingHandler.__init__
NewHandler == [buffer |-> <<>>, kind |-> None]

NoEffect(h) == [h |-> h, out |-> <<>>]

\* A flush_buffer that saves a message whenever a unit is open.
flush_buffer_saving_empty(h) ==
    IF h.kind = None
    THEN NoEffect(h)
    ELSE [h |-> [buffer |-> <<>>, kind |-> None],
          out |-> <<Message(IF h.kind = ThinkingPart THEN THINKING ELSE ASSISTANT,
                            [text |-> h.buffer])>>]

\* A flush_buffer that saves the message and leaves the buffer as it is.
flush_buffer_keeps_buffer(h) ==
    IF h.buffer = <<>> \/ h.kind = None
    THEN NoEffect(h)
    ELSE [h |-> [buffer |-> h.buffer, kind |-> None],
          out |-> <<Message(IF h.kind = ThinkingPart THEN THINKING ELSE ASSISTANT,
                            [text |-> h.buffer])>>]

\* flush_buffer: the handler afterwards and the messages it saved.
flush_buffer(h) ==
    IF h.buffer = <<>> \/ h.kind = None
    THEN NoEffect(h)
    ELSE [h |-> [buffer |-> <<>>, kind |-> None],
          out |-> <<Message(IF h.kind = ThinkingPart THEN THINKING ELSE ASSISTANT,
                            [text |-> h.buffer])>>]

\* An on_part_start that flushes whenever a unit is open.
on_part_start_always_flushing(h, event) ==
    IF event.kind \in {TextPart, ThinkingPart}
    THEN LET f == IF h.kind # None THEN flush_buffer(h) ELSE NoEffect(h)
         IN  [h |-> [buffer |-> f.h.buffer \o event.content, kind |-> event.kind],
              out |-> f.out]
    ELSE NoEffect(h)

\* An on_part_start that does not flush when the kind changes.
on_part_start_without_flush(h, event) ==
    IF event.kind \in {TextPart, ThinkingPart}
    THEN [h |-> [buffer |-> h.buffer \o event.content, kind |-> event.kind],
          out |-> <<>>]
    ELSE NoEffect(h)

on_part_start(h, event) ==
    IF event.kind \in {TextPart, ThinkingPart}
    THEN LET f == IF h.kind # None /\ h.kind # event.kind
                  THEN flush_buffer(h)
                  ELSE NoEffect(h)
         IN  [h |-> [buffer |-> f.h.buffer \o event.content, kind |-> event.kind],
              out |-> f.out]
    ELSE NoEffect(h)

\* An on_part_delta that saves each fragment as it arrives.
on_part_delta_saving(h, event) ==
    IF event.kind \in {TextPart, ThinkingPart}
    THEN flush_buffer([h EXCEPT !.buffer = @ \o event.content])
    ELSE NoEffect(h)

\* An on_event that passes the events it has no handler for to flush_buffer.
on_event_flushing_unknown(h, event) ==
    CASE event.ev = "PartStartEvent" -> on_part_start(h, event)
      [] event.ev = "PartDeltaEvent" ->
             IF event.kind \in {TextPart, ThinkingPart}
             THEN [h |-> [h EXCEPT !.buffer = @ \o event.content], out |-> <<>>]
             ELSE NoEffect(h)
      [] event.ev = "PartEndEvent" -> flush_buffer(h)
      [] event.ev = "FunctionToolCallEvent" ->
             [h |-> flush_buffer(h).h,
              out |-> Append(flush_buffer(h).out, Message(TOOL_CALL,
                          [tool_name |-> event.tool, tool_args |-> event.content]))]
      [] event.ev = "FunctionToolResultEvent" ->
             [h |-> h,
              out |-> <<Message(TOOL_RESULT,
                           [tool_name |-> event.tool, result |-> event.content])>>]
      [] OTHER -> flush_buffer(h)

\* An on_tool_result that flushes the buffer before it saves the result.
on_tool_result_flushing(h, event) ==
    [h |-> flush_buffer(h).h,
     out |-> Append(flush_buffer(h).out, Message(TOOL_RESULT,
                 [tool_name |-> event.tool, result |-> event.content]))]

on_part_delta(h, event) ==
    IF event.kind \in {TextPart, ThinkingPart}
    THEN [h |-> [h EXCEPT !.buffer = @ \o event.content], out |-> <<>>]
    ELSE NoEffect(h)

on_part_end(h, event) == flush_buffer(h)

\* An on_tool_call that saves the tool call before it flushes.
on_tool_call_flushing_late(h, event) ==
    [h |-> flush_buffer(h).h,
     out |-> <<Message(TOOL_CALL,
                  [tool_name |-> event.tool, tool_args |-> event.content])>>
             \o flush_buffer(h).out]

on_tool_call(h, event) ==
    LET f == flush_buffer(h)
    IN  [h |-> f.h,
         out |-> Append(f.out, Message(TOOL_CALL,
                     [tool_name |-> event.tool, tool_args |-> event.content]))]

on_tool_result(h, event) ==
    [h |-> h,
     out |-> <<Message(TOOL_RESULT,
                  [tool_name |-> event.tool, result |-> event.content])>>]

\* on_event: single dispatch on the event's type; any other event is passed.
on_event(h, event) ==
    CASE event.ev = "PartStartEvent" -> on_part_start(h, event)
      [] event.ev = "PartDeltaEvent" -> on_part_delta(h, event)
      [] event.ev = "PartEndEvent" -> on_part_end(h, event)
      [] event.ev = "FunctionToolCallEvent" -> on_tool_call(h, event)
      [] event.ev = "FunctionToolResultEvent" -> on_tool_result(h, event)
      [] OTHER -> NoEffect(h)

\* The events of pydantic_ai's AgentStreamEvent. A part or delta carries its
\* kind and its content; the content of a text part is "T", of a text delta
\* "t", of a thinking part "R", of a thinking delta "r", or the empty str.
Event(ev, kind, c, tool) == [ev |-> ev, kind |-> kind, content |-> c, tool |-> tool]

PartStart(kind, c) == Event("PartStartEvent", kind, c, None)
PartDelta(kind, c) == Event("PartDeltaEvent", kind, c, None)
PartEnd == Event("PartEndEvent", None, <<>>, None)
ToolCall == Event("FunctionToolCallEvent", None, <<"sql">>, "query_db")
ToolResult == Event("FunctionToolResultEvent", None, <<"rows">>, "query_db")
FinalResult == Event("FinalResultEvent", None, <<>>, None)

AggEvents ==
    {PartStart(TextPart, c) : c \in {<<>>, <<"T">>}}
    \cup {PartStart(ThinkingPart, c) : c \in {<<>>, <<"R">>}}
    \cup {PartStart(ToolCallPart, <<>>)}
    \cup {PartDelta(TextPart, c) : c \in {<<>>, <<"t">>}}
    \cup {PartDelta(ThinkingPart, c) : c \in {<<>>, <<"r">>}}
    \cup {PartDelta(ToolCallPart, <<"a">>)}
    \cup {PartEnd, ToolCall, ToolResult, FinalResult}

LifeEvents == {PartStart(TextPart, <<"T">>), ToolCall}

\* ------------------------------------------------- services/user_config.py

\* UserDatabaseConnection.objects.filter(user=user, is_active=True)
\*     .order_by("created_at").first(), 0 when there is none.
FirstActiveDb(ca) ==
    IF \E d \in DbIds : ca[d]
    THEN CHOOSE d \in DbIds : ca[d] /\ \A e \in DbIds : ca[e] => d <= e
    ELSE 0

\* UserModelConfig.objects.filter(user=user, is_active=True,
\*     api_key__is_active=True).order_by("created_at").first()
\* on model configs that are active as in ma and reference the keys mk,
\* which are active as in ka.
FirstActiveModelOf(ma, ka, mk) ==
    IF \E m \in ModelIds : ma[m] /\ ka[mk[m]]
    THEN CHOOSE m \in ModelIds :
             /\ ma[m] /\ ka[mk[m]]
             /\ \A e \in ModelIds : (ma[e] /\ ka[mk[e]]) => m <= e
    ELSE 0

FirstActiveModel(ma, ka) == FirstActiveModelOf(ma, ka, model_key)

\* ensure_user_defaults: the user's settings afterwards (it saves them).
ensure_user_defaults(s, ca, ma, ka) ==
    [db |-> IF s.db = 0 THEN FirstActiveDb(ca) ELSE s.db,
     model |-> IF s.model = 0 THEN FirstActiveModel(ma, ka) ELSE s.model]

Settings == [db |-> default_db, model |-> default_model]

\* A database_connection_id / model_config_id of a request body: absent
\* (None), an integer, or a value of another type.
Absent == [type |-> "absent", id |-> 0]
IntId(i) == [type |-> "int", id |-> i]
NotInt == [type |-> "other", id |-> 0]

DbSelections == {Absent, NotInt} \cup {IntId(i) : i \in DbIds}
ModelSelections == {Absent, NotInt} \cup {IntId(i) : i \in ModelIds}

\* get_selected_or_default_db, on the settings ensure_user_defaults returned;
\* 0 for None.
get_selected_or_default_db(s, selected) ==
    LET db_id == IF selected.type # "absent" THEN selected.id ELSE s.db
    IN  IF db_id = 0 THEN 0
        ELSE IF db_id \in DbIds /\ conn_active[db_id] THEN db_id ELSE 0

get_selected_or_default_model(s, selected) ==
    LET model_id == IF selected.type # "absent" THEN selected.id ELSE s.model
    IN  IF model_id = 0 THEN 0
        ELSE IF /\ model_id \in ModelIds
                /\ model_active[model_id]
                /\ key_active[ModelKey(model_id)]
             THEN model_id ELSE 0

\* The texts of the RuntimeErrors get_runtime_config_for_thread_id raises.
NoActiveDatabase ==
    <<"N", "o", " ", "a", "c", "t", "i", "v", "e", " ", "d", "a", "t", "a",
      "b", "a", "s", "e", " ", "c", "o", "n", "n", "e", "c", "t", "i", "o",
      "n", " ", "c", "o", "n", "f", "i", "g", "u", "r", "e", "d", ".", " ",
      "A", "d", "d", " ", "o", "n", "e", " ", "i", "n", " ", "/", "s", "e",
      "t", "t", "i", "n", "g", "s", ".">>
NoActiveModel ==
    <<"N", "o", " ", "a", "c", "t", "i", "v", "e", " ", "m", "o", "d", "e",
      "l", " ", "c", "o", "n", "f", "i", "g", "u", "r", "e", "d", ".", " ",
      "A", "d", "d", " ", "o", "n", "e", " ", "i", "n", " ", "/", "s", "e",
      "t", "t", "i", "n", "g", "s", ".">>

EmptyDatabaseConnection ==
    <<"D", "a", "t", "a", "b", "a", "s", "e", " ", "c", "o", "n", "n", "e",
      "c", "t", "i", "o", "n", " ", "i", "s", " ", "e", "m", "p", "t", "y",
      ".", " ", "U", "p", "d", "a", "t", "e", " ", "i", "t", " ", "i", "n",
      " ", "/", "s", "e", "t", "t", "i", "n", "g", "s", ".">>
MissingApiKey ==
    <<"A", "P", "I", " ", "k", "e", "y", " ", "i", "s", " ", "m", "i", "s",
      "s", "i", "n", "g", " ", "f", "o", "r", " ", "t", "h", "e", " ", "s",
      "e", "l", "e", "c", "t", "e", "d", " ", "m", "o", "d", "e", "l", ".">>
MissingModelName ==
    <<"M", "o", "d", "e", "l", " ", "n", "a", "m", "e", " ", "i", "s", " ",
      "m", "i", "s", "s", "i", "n", "g", " ", "f", "o", "r", " ", "t", "h",
      "e", " ", "s", "e", "l", "e", "c", "t", "e", "d", " ", "m", "o", "d",
      "e", "l", ".">>

\* str.strip(): the blanks at both ends are removed.
RECURSIVE lstrip(_)
lstrip(text) == IF text # <<>> /\ text[1] = " " THEN lstrip(Tail(text)) ELSE text

RECURSIVE rstrip(_)
rstrip(text) ==
    IF text # <<>> /\ text[Len(text)] = " "
    THEN rstrip(SubSeq(text, 1, Len(text) - 1))
    ELSE text

\* A strip that removes the leading blanks only.
strip_leading_only(text) == lstrip(text)

strip(text) == rstrip(lstrip(text))

\* An optional str: None is <<>>, the str x is <<x>>.
Nothing == <<>>
Some(x) == <<x>>

\* SQLSaberRuntimeConfig(database_connection=..., model_name=..., api_key=...,
\* memory=...)
SQLSaberRuntimeConfig(dc, mn, ak, mem) ==
    [database_connection |-> dc, model_name |-> mn, api_key |-> ak, memory |-> mem]
NoConfig == SQLSaberRuntimeConfig(<<>>, <<>>, <<>>, Nothing)

\* The outcome of get_runtime_config_for_thread_id: the error it raises (""
\* for none), the rows it chose (0: none) and the config it returns.
Failed(error, db, model) == [error |-> error, db |-> db, model |-> model, config |-> NoConfig]

\* A resolution that prefers the user's default connection to the one the
\* thread is bound to.
get_runtime_config_default_first(s) ==
    LET db == IF s.db # 0 /\ conn_active[s.db] THEN s.db
              ELSE IF thread_db # 0 /\ conn_active[thread_db] THEN thread_db
              ELSE 0
        model == IF /\ thread_model # 0
                    /\ model_active[thread_model]
                    /\ key_active[ModelKey(thread_model)]
                 THEN thread_model
                 ELSE IF /\ s.model # 0
                         /\ model_active[s.model]
                         /\ key_active[ModelKey(s.model)]
                      THEN s.model
                 ELSE 0
    IN  IF db = 0 THEN Failed(NoActiveDatabase, 0, 0)
        ELSE IF model = 0 THEN Failed(NoActiveModel, db, 0)
        ELSE IF strip(conn_string[db]) = <<>> THEN Failed(EmptyDatabaseConnection, db, model)
        ELSE IF strip(api_key[ModelKey(model)]) = <<>> THEN Failed(MissingApiKey, db, model)
        ELSE IF strip(model_name[model]) = <<>> THEN Failed(MissingModelName, db, model)
        ELSE [error |-> <<>>, db |-> db, model |-> model,
              config |-> SQLSaberRuntimeConfig(
                             strip(conn_string[db]),
                             strip(model_name[model]),
                             strip(api_key[ModelKey(model)]),
                             IF strip(memory[db]) = <<>> THEN Nothing
                             ELSE Some(strip(memory[db])))]

\* A resolution that does not look at the API key of the bound model.
get_runtime_config_any_key(s) ==
    LET db == IF thread_db # 0 /\ conn_active[thread_db] THEN thread_db
              ELSE IF s.db # 0 /\ conn_active[s.db] THEN s.db
              ELSE 0
        model == IF /\ thread_model # 0
                    /\ model_active[thread_model]
                 THEN thread_model
                 ELSE IF /\ s.model # 0
                         /\ model_active[s.model]
                         /\ key_active[ModelKey(s.model)]
                      THEN s.model
                 ELSE 0
    IN  IF db = 0 THEN Failed(NoActiveDatabase, 0, 0)
        ELSE IF model = 0 THEN Failed(NoActiveModel, db, 0)
        ELSE IF strip(conn_string[db]) = <<>> THEN Failed(EmptyDatabaseConnection, db, model)
        ELSE IF strip(api_key[ModelKey(model)]) = <<>> THEN Failed(MissingApiKey, db, model)
        ELSE IF strip(model_name[model]) = <<>> THEN Failed(MissingModelName, db, model)
        ELSE [error |-> <<>>, db |-> db, model |-> model,
              config |-> SQLSaberRuntimeConfig(
                             strip(conn_string[db]),
                             strip(model_name[model]),
                             strip(api_key[ModelKey(model)]),
                             IF strip(memory[db]) = <<>> THEN Nothing
                             ELSE Some(strip(memory[db])))]

\* A resolution that returns the connection string the row had at first.
get_runtime_config_of_snapshot(s) ==
    LET db == IF thread_db # 0 /\ conn_active[thread_db] THEN thread_db
              ELSE IF s.db # 0 /\ conn_active[s.db] THEN s.db
              ELSE 0
        model == IF /\ thread_model # 0
                    /\ model_active[thread_model]
                    /\ key_active[ModelKey(thread_model)]
                 THEN thread_model
                 ELSE IF /\ s.model # 0
                         /\ model_active[s.model]
                         /\ key_active[ModelKey(s.model)]
                      THEN s.model
                 ELSE 0
    IN  IF db = 0 THEN Failed(NoActiveDatabase, 0, 0)
        ELSE IF model = 0 THEN Failed(NoActiveModel, db, 0)
        ELSE IF strip(conn_string[db]) = <<>> THEN Failed(EmptyDatabaseConnection, db, model)
        ELSE IF strip(api_key[ModelKey(model)]) = <<>> THEN Failed(MissingApiKey, db, model)
        ELSE IF strip(model_name[model]) = <<>> THEN Failed(MissingModelName, db, model)
        ELSE [error |-> <<>>, db |-> db, model |-> model,
              config |-> SQLSaberRuntimeConfig(
                             strip(RowText("c", db)),
                             strip(model_name[model]),
                             strip(api_key[ModelKey(model)]),
                             IF strip(memory[db]) = <<>> THEN Nothing
                             ELSE Some(strip(memory[db])))]

\* get_runtime_config_for_thread_id, on the settings ensure_user_defaults
\* returned.
get_runtime_config_for_thread_id(s) ==
    LET db == IF thread_db # 0 /\ conn_active[thread_db] THEN thread_db
              ELSE IF s.db # 0 /\ conn_active[s.db] THEN s.db
              ELSE 0
        model == IF /\ thread_model # 0
                    /\ model_active[thread_model]
                    /\ key_active[ModelKey(thread_model)]
                 THEN thread_model
                 ELSE IF /\ s.model # 0
                         /\ model_active[s.model]
                         /\ key_active[ModelKey(s.model)]
                      THEN s.model
                 ELSE 0
    IN  IF db = 0 THEN Failed(NoActiveDatabase, 0, 0)
        ELSE IF model = 0 THEN Failed(NoActiveModel, db, 0)
        ELSE IF strip(conn_string[db]) = <<>> THEN Failed(EmptyDatabaseConnection, db, model)
        ELSE IF strip(api_key[ModelKey(model)]) = <<>> THEN Failed(MissingApiKey, db, model)
        ELSE IF strip(model_name[model]) = <<>> THEN Failed(MissingModelName, db, model)
        ELSE [error |-> <<>>, db |-> db, model |-> model,
              config |-> SQLSaberRuntimeConfig(
                             strip(conn_string[db]),
                             strip(model_name[model]),
                             strip(api_key[ModelKey(model)]),
                             IF strip(memory[db]) = <<>> THEN Nothing
                             ELSE Some(strip(memory[db])))]

\* ------------------------------------------------------------- documents

\* A JSON document as Thread.content and message_history hold it: None, the
\* empty dict {} or a list of transcript elements (one per turn: its prompt).
Doc(type, items) == [type |-> type, items |-> items]
NoDoc == Doc("none", <<>>)
EmptyDict == Doc("dict", <<>>)

\* Python truth of a document: None, {} and [] are false.
Truthy(doc) == doc.items # <<>>

\* An element of the transcript (a ModelMessage): the request of one turn.
ModelRequest(prompt) == [kind |-> "request", prompt |-> prompt]

\* _MessageHistoryAdapter.validate_python(doc) accepts doc.
ValidHistory(doc) ==
    /\ doc.type = "list"
    /\ \A i \in 1 .. Len(doc.items) : doc.items[i].kind \in {"request", "response"}

\* to_jsonable_python(result.all_messages): the engine's transcript is the
\* history it was given followed by this turn.
all_messages(history, prompt) == Doc("list", Append(history.items, ModelRequest(prompt)))

\* ----------------------------------------------------------------- api.py

\* The `after` parameter of get_messages: absent, the empty str, the text of
\* an integer or another text.
NoAfter == [type |-> "absent", id |-> 0]
EmptyAfter == [type |-> "empty", id |-> 0]
BadAfter == [type |-> "other", id |-> 0]
After(c) == [type |-> "int", id |-> c]

\* A message of the response: Message.id is the position in the table.
Entry(i) == [id |-> i, type |-> messages[i].type, content |-> messages[i].content]

\* A get_messages request and its response: the `after` it was called
\* with, the status code and the "messages" of the body.
Response(after, code, entries) == [after |-> after, code |-> code, messages |-> entries]
NoResponse == Response(NoAfter, 0, <<>>)

\* A get_messages that filters id__gte.
get_messages_from(after) ==
    IF ~exists THEN Response(after, 404, <<>>)
    ELSE IF after.type \in {"absent", "empty"}
    THEN Response(after, 200, [i \in 1 .. Len(messages) |-> Entry(i)])
    ELSE IF after.type = "other"
    THEN Response(after, 400, <<>>)
    ELSE Response(after, 200, SelectSeq([i \in 1 .. Len(messages) |-> Entry(i)],
                                        LAMBDA e : e.id >= after.id))

\* get_messages (api.py 225-256) on the thread, if it exists: the messages
\* of the thread, those of id__gt=int(after) if `after` is given, by id.
get_messages(after) ==
    IF ~exists THEN Response(after, 404, <<>>)
    ELSE IF after.type \in {"absent", "empty"}
    THEN Response(after, 200, [i \in 1 .. Len(messages) |-> Entry(i)])
    ELSE IF after.type = "other"
    THEN Response(after, 400, <<>>)
    ELSE Response(after, 200, SelectSeq([i \in 1 .. Len(messages) |-> Entry(i)],
                                        LAMBDA e : e.id > after.id))

\* The requests a client makes: any `after`, up to one past the last id.
AfterParams == {NoAfter, EmptyAfter, BadAfter} \cup {After(c) : c \in 0 .. Len(messages) + 1}

\* A client calls get_messages.
GetMessages ==
    /\ \E after \in AfterParams : response' = get_messages(after)
    /\ UNCHANGED <<threadVars, messages, task, req, configVars, received, peer>>

\* The largest id the reader has received, 0 before the first.
Cursor == IF received = <<>> THEN 0 ELSE received[Len(received)].id

\* The polling reader calls get_messages with after = the largest id it has
\* received, and appends what it is sent.
ReaderPoll ==
    /\ response' = get_messages(After(Cursor))
    /\ received' = IF response'.code = 200 THEN received \o response'.messages
                   ELSE received
    /\ UNCHANGED <<threadVars, messages, task, req, configVars, peer>>


\* The prompt of a request body after strip(): blank, or the text the user
\* typed (each request another text).
Blank == <<>>
PromptOf(r) == << <<"p0">>, <<"p1">>, <<"p2">>, <<"p3">>, <<"p4">> >>[r + 1]

\* An exception: the step of run_sqlsaber_query that raised it, and str(e).
Exc(step, msg) == [step |-> step, msg |-> msg]
NoExc == Exc("none", <<>>)

NoTask == [pc |-> "none", prompt |-> Blank, message_history |-> NoDoc,
           handler |-> NewHandler, config |-> NoConfig, events |-> <<>>,
           exc |-> NoExc, ran |-> FALSE]

\* Another thread (another row of Thread), the rows of Message that have its
\* id as thread_id, and the execution of run_sqlsaber_query deferred for it:
\* where it is, its handler, the events it was passed and what it caught.
Peer(pc, st, c, err, msgs, h, evs, exc) ==
    [pc |-> pc, status |-> st, content |-> c, error_message |-> err,
     messages |-> msgs, handler |-> h, events |-> evs, exc |-> exc]
NoPeer == Peer("none", None, NoDoc, <<>>, <<>>, NewHandler, <<>>, NoExc)

\* run_sqlsaber_query.defer(thread_id=..., prompt=..., message_history=...)
Defer(prompt, history) ==
    [NoTask EXCEPT !.pc = "queued", !.prompt = prompt, !.message_history = history]

\* A continue_thread call: where it is, what it read and its response.
NewReq == [pc |-> "new", prompt |-> Blank, db |-> 0, model |-> 0,
           content |-> NoDoc, response |-> 0]

Reject(code) == [NewReq EXCEPT !.pc = "done", !.response = code]

\* A create_thread that creates the thread row before it looks for the
\* connection and the model, and leaves it behind when it responds 409.
CreateThread_before_check(dsels, msels) ==
    /\ ~exists
    /\ \E prompt \in {Blank, PromptOf(0)}, dsel \in dsels, msel \in msels :
         IF prompt = Blank \/ dsel.type = "other" \/ msel.type = "other"
         THEN UNCHANGED vars
         ELSE LET s == ensure_user_defaults(Settings, conn_active, model_active, key_active)
                  db == get_selected_or_default_db(s, dsel)
                  model == get_selected_or_default_model(s, msel)
              IN  /\ default_db' = s.db
                  /\ default_model' = s.model
                  /\ UNCHANGED <<conn_active, model_active, key_active, rowVars, req,
                               readerVars, peer>>
                  /\ exists' = TRUE
                  /\ status' = PENDING
                  /\ content' = EmptyDict
                  /\ error_message' = <<>>
                  /\ thread_db' = db
                  /\ thread_model' = model
                  /\ IF db = 0 \/ model = 0
                     THEN UNCHANGED <<messages, task>>
                     ELSE /\ messages' = Append(messages, Message(USER, [text |-> prompt]))
                          /\ task' = [task EXCEPT ![0] = Defer(prompt, NoDoc)]

\* create_thread (api.py 154-212), on a request body with one of the
\* selections `dsels` and `msels`.
CreateThread(dsels, msels) ==
    /\ ~exists
    /\ \E prompt \in {Blank, PromptOf(0)}, dsel \in dsels, msel \in msels :
         IF prompt = Blank \/ dsel.type = "other" \/ msel.type = "other"
         THEN UNCHANGED vars
         ELSE LET s == ensure_user_defaults(Settings, conn_active, model_active, key_active)
                  db == get_selected_or_default_db(s, dsel)
                  model == get_selected_or_default_model(s, msel)
              IN  /\ default_db' = s.db
                  /\ default_model' = s.model
                  /\ UNCHANGED <<conn_active, model_active, key_active, rowVars, req,
                               readerVars, peer>>
                  /\ IF db = 0 \/ model = 0
                     THEN UNCHANGED <<threadVars, messages, task>>
                     ELSE /\ exists' = TRUE
                          /\ status' = PENDING
                          /\ content' = EmptyDict
                          /\ error_message' = <<>>
                          /\ thread_db' = db
                          /\ thread_model' = model
                          /\ messages' = Append(messages, Message(USER, [text |-> prompt]))
                          /\ task' = [task EXCEPT ![0] = Defer(prompt, NoDoc)]

\* A continue_thread that turns away a running thread only.
continue_thread_unless_running(prompt, dsel, msel, s) ==
    IF status = RUNNING
    THEN Reject(409)
    ELSE LET db == get_selected_or_default_db(s, dsel)
             model == get_selected_or_default_model(s, msel)
         IN  IF db = 0 \/ model = 0
             THEN Reject(409)
             ELSE IF ~Truthy(content) \/ content.type # "list"
             THEN Reject(400)
             ELSE [pc |-> "loaded", prompt |-> prompt, db |-> db, model |-> model,
                   content |-> content, response |-> 0]

\* A continue_thread that goes on whatever Thread.content holds.
continue_thread_any_content(prompt, dsel, msel, s) ==
    IF status = RUNNING
    THEN Reject(409)
    ELSE IF status = PENDING
    THEN Reject(409)
    ELSE LET db == get_selected_or_default_db(s, dsel)
             model == get_selected_or_default_model(s, msel)
         IN  IF db = 0 \/ model = 0
             THEN Reject(409)
             ELSE [pc |-> "loaded", prompt |-> prompt, db |-> db, model |-> model,
                   content |-> content, response |-> 0]

\* continue_thread from the thread lookup to its last check (api.py
\* 285-318), on the settings ensure_user_defaults returned: the rejection,
\* or what the request has read and goes on to write.
continue_thread(prompt, dsel, msel, s) ==
    IF status = RUNNING
    THEN Reject(409)
    ELSE IF status = PENDING
    THEN Reject(409)
    ELSE LET db == get_selected_or_default_db(s, dsel)
             model == get_selected_or_default_model(s, msel)
         IN  IF db = 0 \/ model = 0
             THEN Reject(409)
             ELSE IF ~Truthy(content) \/ content.type # "list"
             THEN Reject(400)
             ELSE [pc |-> "loaded", prompt |-> prompt, db |-> db, model |-> model,
                   content |-> content, response |-> 0]

\* continue_thread, up to its last check (api.py 261-318), on a request body
\* with one of the selections `dsels` and `msels`. A body that is
\* not valid (a blank prompt, an id that is no integer) is answered 400 and
\* a thread that does not exist 404, before anything is read or written.
\* The requests are numbered in the order they arrive.
ContinueThreadLoad(r, dsels, msels) ==
    /\ req[r].pc = "new"
    /\ \A q \in Reqs : q < r => req[q].pc # "new"
    /\ \E prompt \in {Blank, PromptOf(r)}, dsel \in dsels, msel \in msels :
         IF prompt = Blank \/ dsel.type = "other" \/ msel.type = "other" \/ ~exists
         THEN UNCHANGED <<req, default_db, default_model>>
         ELSE LET s == IF status \in {RUNNING, PENDING}
                       THEN Settings
                       ELSE ensure_user_defaults(Settings, conn_active, model_active,
                                                 key_active)
              IN  /\ req' = [req EXCEPT ![r] = continue_thread(prompt, dsel, msel, s)]
                  /\ default_db' = s.db
                  /\ default_model' = s.model
    /\ UNCHANGED <<threadVars, messages, task, conn_active, model_active, key_active,
                   rowVars, readerVars, peer>>

\* A continue_thread that writes the prompt over the thread's last message.
ContinueThreadMessage_rewriting(r) ==
    /\ req[r].pc = "loaded"
    /\ messages' = [messages EXCEPT ![Len(messages)] =
                        Message(USER, [text |-> req[r].prompt])]
    /\ req' = [req EXCEPT ![r].pc = "msg"]
    /\ UNCHANGED <<threadVars, task, configVars, readerVars, peer>>

\* continue_thread: Message.objects.create (api.py 320-324).
ContinueThreadMessage(r) ==
    /\ req[r].pc = "loaded"
    /\ messages' = Append(messages, Message(USER, [text |-> req[r].prompt]))
    /\ req' = [req EXCEPT ![r].pc = "msg"]
    /\ UNCHANGED <<threadVars, task, configVars, readerVars, peer>>

\* continue_thread: thread.save(update_fields=[...]), the deferred job and
\* the response (api.py 326-344).
ContinueThreadSave(r) ==
    /\ req[r].pc = "msg"
    /\ thread_db' = req[r].db
    /\ thread_model' = req[r].model
    /\ status' = PENDING
    /\ task' = [task EXCEPT ![r] = Defer(req[r].prompt, req[r].content)]
    /\ req' = [req EXCEPT ![r] = [@ EXCEPT !.pc = "done", !.response = 200]]
    /\ UNCHANGED <<exists, content, error_message, messages, configVars, readerVars, peer>>

\* A set_database_connection_active that leaves the default as it is when
\* it removes the default connection.
SetDatabaseConnectionActive_keeping_default(ids) ==
    /\ \E d \in ids, is_active \in BOOLEAN :
         LET ca == [conn_active EXCEPT ![d] = is_active]
             s == ensure_user_defaults(Settings, ca, model_active, key_active)
         IN  /\ conn_active' = ca
             /\ default_db' = s.db
             /\ default_model' = s.model
    /\ UNCHANGED <<threadVars, messages, task, req, model_active, key_active,
                   rowVars, readerVars, peer>>

\* set_database_connection_active (api.py 671-700), on one of the
\* connections `ids`.
SetDatabaseConnectionActive(ids) ==
    /\ \E d \in ids, is_active \in BOOLEAN :
         LET ca == [conn_active EXCEPT ![d] = is_active]
             cleared == [db |-> IF ~is_active /\ default_db = d THEN 0 ELSE default_db,
                         model |-> default_model]
             s == ensure_user_defaults(cleared, ca, model_active, key_active)
         IN  /\ conn_active' = ca
             /\ default_db' = s.db
             /\ default_model' = s.model
    /\ UNCHANGED <<threadVars, messages, task, req, model_active, key_active,
                   rowVars, readerVars, peer>>

\* The connection_string and memory of a request body: absent, or a str
\* (blank, or with blanks around it).
ConnectionStrings == {Nothing, Some(<<" ">>), Some(<<" ", "d">>)}
Memories == {Nothing, Some(<<" ", "n">>)}

\* update_database_connection (api.py 606-668), on one of the connections
\* `ids`: a blank connection_string is answered 400 and nothing is saved.
UpdateDatabaseConnection(ids) ==
    /\ \E d \in ids, cs \in ConnectionStrings, mem \in Memories :
         IF cs # Nothing /\ strip(cs[1]) = <<>>
         THEN UNCHANGED <<conn_string, memory>>
         ELSE /\ conn_string' = IF cs = Nothing THEN conn_string
                                ELSE [conn_string EXCEPT ![d] = strip(cs[1])]
              /\ memory' = IF mem = Nothing THEN memory
                           ELSE [memory EXCEPT ![d] = mem[1]]
    /\ UNCHANGED <<threadVars, messages, task, req, conn_active, model_active,
                   key_active, default_db, default_model, model_name, api_key,
                   model_key, readerVars, peer>>

\* A set_api_key_active that removes a key whatever uses it.
SetApiKeyActive_unchecked ==
    /\ \E k \in DOMAIN key_active, is_active \in BOOLEAN :
         key_active' = [key_active EXCEPT ![k] = is_active]
    /\ UNCHANGED <<threadVars, messages, task, req, conn_active, model_active,
                   default_db, default_model, rowVars, readerVars, peer>>

\* set_api_key_active (api.py 516-554), on one of the user's keys: removing
\* a key an active model uses is answered 409; no default is chosen
\* afterwards.
SetApiKeyActive ==
    /\ \E k \in DOMAIN key_active, is_active \in BOOLEAN :
         IF ~is_active /\ \E m \in ModelIds : ModelKey(m) = k /\ model_active[m]
         THEN UNCHANGED key_active
         ELSE key_active' = [key_active EXCEPT ![k] = is_active]
    /\ UNCHANGED <<threadVars, messages, task, req, conn_active, model_active,
                   default_db, default_model, rowVars, readerVars, peer>>

\* set_model_config_active (api.py 861-904), on one of the model configs
\* `ids`: a model that is not created is answered 404, enabling a model
\* whose key is inactive 409.
SetModelConfigActive(ids) ==
    /\ \E m \in ids, is_active \in BOOLEAN :
         IF ModelKey(m) = 0 \/ (is_active /\ ~key_active[ModelKey(m)])
         THEN UNCHANGED <<model_active, default_db, default_model>>
         ELSE LET ma == [model_active EXCEPT ![m] = is_active]
                  cleared == [db |-> default_db,
                              model |-> IF ~is_active /\ default_model = m THEN 0
                                        ELSE default_model]
                  s == ensure_user_defaults(cleared, conn_active, ma, key_active)
              IN  /\ model_active' = ma
                  /\ default_db' = s.db
                  /\ default_model' = s.model
    /\ UNCHANGED <<threadVars, messages, task, req, conn_active, key_active,
                   rowVars, readerVars, peer>>

\* parse_provider accepts the (stripped) model name: it is provider:model
\* with a provider that is not blank.
HasProvider(text) ==
    \E i \in 1 .. Len(text) :
        /\ text[i] = ":"
        /\ \A h \in 1 .. i - 1 : text[h] # ":"
        /\ strip(SubSeq(text, 1, i - 1)) # <<>>

\* The model_name and the api_key of a request body: absent, or a str.
ModelNames == {Nothing, Some(<<"n">>), Some(<<" ", "p", ":", "n">>)}
ApiKeys == {Nothing, Some(<<" ">>), Some(<<" ", "s">>)}

\* The api_key_id of a request body: absent, an integer or a value of
\* another type.
KeySelections == {Absent, NotInt} \cup {IntId(k) : k \in DOMAIN key_active}

\* UserApiKey.objects.filter(user=user, id=api_key_id, is_active=True)
\*     .first() is a key.
ActiveKey(selected) ==
    /\ selected.type = "int"
    /\ selected.id \in DOMAIN key_active
    /\ key_active[selected.id]

\* update_model_config (api.py 772-860), on one of the model configs `ids`
\* and with one of the keys `ksels` (all keys are of the models' provider):
\* a model that is not created is answered 404, a model name that is blank
\* or without provider 400, an api_key_id that is no integer 400 and one
\* that is not an active key of the user 404, and then nothing is saved.
UpdateModelConfig(ids, ksels) ==
    /\ \E m \in ids, mn \in ModelNames, ksel \in ksels :
         IF \/ ModelKey(m) = 0
            \/ mn # Nothing /\ (strip(mn[1]) = <<>> \/ ~HasProvider(strip(mn[1])))
            \/ ksel # Absent /\ ~ActiveKey(ksel)
         THEN UNCHANGED <<model_name, model_key>>
         ELSE /\ model_name' = IF mn = Nothing THEN model_name
                               ELSE [model_name EXCEPT ![m] = strip(mn[1])]
              /\ model_key' = IF ksel = Absent THEN model_key
                              ELSE [model_key EXCEPT ![m] = ksel.id]
    /\ UNCHANGED <<threadVars, messages, task, req, conn_active, model_active,
                   key_active, default_db, default_model, conn_string, memory,
                   api_key, readerVars, peer>>

\* add_model_config (api.py 703-767), for the model config that is created
\* next and with one of the keys `ksels`: an api_key_id that is no integer
\* is answered 400 and one that is not an active key of the user 404; else
\* the model is created active, and ensure_user_defaults is called.
AddModelConfig(ksels) ==
    /\ \E m \in ModelIds, ksel \in ksels :
         /\ ModelKey(m) = 0
         /\ \A e \in ModelIds : e < m => ModelKey(e) # 0
         /\ IF ~ActiveKey(ksel)
            THEN UNCHANGED <<model_active, model_key, default_db, default_model>>
            ELSE LET ma == [model_active EXCEPT ![m] = TRUE]
                     mk == [model_key EXCEPT ![m] = ksel.id]
                     s == [db |-> IF default_db = 0 THEN FirstActiveDb(conn_active)
                                  ELSE default_db,
                           model |-> IF default_model = 0
                                     THEN FirstActiveModelOf(ma, key_active, mk)
                                     ELSE default_model]
                 IN  /\ model_active' = ma
                     /\ model_key' = mk
                     /\ default_db' = s.db
                     /\ default_model' = s.model
    /\ UNCHANGED <<threadVars, messages, task, req, conn_active, key_active,
                   conn_string, memory, model_name, api_key, readerVars, peer>>

\* The default ids of a request body of update_user_settings.
DefaultDbSelections == {Absent} \cup {IntId(d) : d \in DbIds}
DefaultModelSelections == {Absent} \cup {IntId(m) : m \in ModelIds}

\* update_user_settings (api.py 907-995): a default connection that is not
\* an active connection of the user, and a default model that is not an
\* active model with an active key, is answered 404 and nothing is saved;
\* else the defaults in the body are saved and ensure_user_defaults is
\* called.
UpdateUserSettings ==
    /\ \E dsel \in DefaultDbSelections, msel \in DefaultModelSelections :
         IF \/ dsel # Absent /\ ~conn_active[dsel.id]
            \/ msel # Absent /\ ~(/\ model_active[msel.id]
                                   /\ key_active[ModelKey(msel.id)])
         THEN UNCHANGED <<default_db, default_model>>
         ELSE LET saved == [db |-> IF dsel = Absent THEN default_db ELSE dsel.id,
                            model |-> IF msel = Absent THEN default_model ELSE msel.id]
                  s == ensure_user_defaults(saved, conn_active, model_active, key_active)
              IN  /\ default_db' = s.db
                  /\ default_model' = s.model
    /\ UNCHANGED <<threadVars, messages, task, req, conn_active, model_active,
                   key_active, rowVars, readerVars, peer>>

\* update_api_key (api.py 474-514), on the key: a blank api_key is not
\* saved.
UpdateApiKey ==
    /\ \E k \in DOMAIN key_active, ak \in ApiKeys :
         IF ak # Nothing /\ strip(ak[1]) # <<>>
         THEN api_key' = [api_key EXCEPT ![k] = strip(ak[1])]
         ELSE UNCHANGED api_key
    /\ UNCHANGED <<threadVars, messages, task, req, conn_active, model_active,
                   key_active, default_db, default_model, conn_string, memory,
                   model_name, model_key, readerVars, peer>>

\* --------------------------------------------------------------- tasks.py

\* run_sqlsaber_query has returned, or an exception has left it: its locals
\* are gone.
Ended(how) == [NoTask EXCEPT !.pc = how]

\* The exception e the except clause of run_sqlsaber_query has caught.
Raise(t, e) == [t EXCEPT !.pc = "except", !.exc = e]

\* Whether the writes of the database can fail (django.db.Error) in a
\* specification.
Reliable == FALSE
Unreliable == TRUE

\* A failed write of the database, at `step`.
DbError(step) == Exc(step, <<"d", "b">>)

\* pydantic's ValidationError of the history decode; its text is not empty.
ValidationError == Exc("decode", <<"v">>)

\* str(e) of the exceptions the engine raises: any text, the empty one (as
\* of TimeoutError()) and one of more than ErrorLimit characters included.
LongText == [i \in 1 .. ErrorLimit + 1 |-> "x"]
EngineTexts == {<<>>, <<"e">>, LongText}

\* str(e)[:1000]
Truncated(msg) == SubSeq(msg, 1, IF Len(msg) < ErrorLimit THEN Len(msg) ELSE ErrorLimit)

\* A worker starts job j: the write of RUNNING (tasks.py 26) and the new
\* handler (tasks.py 28).
TaskStart(j, faulty) ==
    /\ task[j].pc = "queued"
    /\ \/ /\ status' = RUNNING
          /\ task' = [task EXCEPT ![j] = [@ EXCEPT !.pc = "config", !.ran = TRUE]]
       \/ /\ faulty
          /\ task' = [task EXCEPT ![j] = Raise(@, DbError("start"))]
          /\ UNCHANGED status
    /\ UNCHANGED <<exists, content, error_message, thread_db, thread_model,
                   messages, req, configVars, readerVars, peer>>

\* A resolution whose failure is ignored: the engine is entered with no
\* config.
TaskConfig_ignoring_failure(j) ==
    /\ task[j].pc = "config"
    /\ IF Truthy(task[j].message_history) /\ ~ValidHistory(task[j].message_history)
       THEN /\ task' = [task EXCEPT ![j] = Raise(@, ValidationError)]
            /\ UNCHANGED <<default_db, default_model>>
       ELSE LET s == ensure_user_defaults(Settings, conn_active, model_active, key_active)
                c == get_runtime_config_for_thread_id(s)
            IN  /\ default_db' = s.db
                /\ default_model' = s.model
                /\ task' = [task EXCEPT ![j] =
                      [@ EXCEPT !.pc = "engine", !.config = c.config]]
    /\ UNCHANGED <<threadVars, messages, req, conn_active, model_active, key_active,
                   rowVars, readerVars, peer>>

\* The history decode and the config resolution (tasks.py 30-40); the test
\* of an empty connection string (tasks.py 39-40) repeats the resolver's.
TaskConfig(j) ==
    /\ task[j].pc = "config"
    /\ IF Truthy(task[j].message_history) /\ ~ValidHistory(task[j].message_history)
       THEN /\ task' = [task EXCEPT ![j] = Raise(@, ValidationError)]
            /\ UNCHANGED <<default_db, default_model>>
       ELSE LET s == ensure_user_defaults(Settings, conn_active, model_active, key_active)
                c == get_runtime_config_for_thread_id(s)
            IN  /\ default_db' = s.db
                /\ default_model' = s.model
                /\ task' = [task EXCEPT ![j] =
                      IF c.error # <<>> THEN Raise(@, Exc("config", c.error))
                      ELSE IF c.config.database_connection = <<>>
                      THEN Raise(@, Exc("config", EmptyDatabaseConnection))
                      ELSE [@ EXCEPT !.pc = "engine", !.config = c.config]]
    /\ UNCHANGED <<threadVars, messages, req, conn_active, model_active, key_active,
                   rowVars, readerVars, peer>>

\* A stream handler whose writes land before the messages of the execution.
TaskEvent_newest_first(j, events, max, faulty) ==
    /\ task[j].pc = "engine"
    /\ Len(task[j].events) < max
    /\ \E event \in events :
         LET r == on_event(task[j].handler, event)
         IN  /\ messages' = <<messages[1]>> \o r.out \o Tail(messages)
             /\ task' = [task EXCEPT ![j] =
                   [@ EXCEPT !.handler = r.h, !.events = Append(@, event)]]
    /\ UNCHANGED <<threadVars, req, configVars, readerVars, peer>>

\* The engine emits an event of `events`, at most `max` in one execution, and
\* handle_event_stream passes it to on_event (tasks.py 50-60, streaming.py
\* 26-28); a message write that fails ends the stream with its exception.
TaskEvent(j, events, max, faulty) ==
    /\ task[j].pc = "engine"
    /\ Len(task[j].events) < max
    /\ \E event \in events :
         LET r == on_event(task[j].handler, event)
         IN  \/ /\ messages' = messages \o r.out
                /\ task' = [task EXCEPT ![j] =
                      [@ EXCEPT !.handler = r.h, !.events = Append(@, event)]]
             \/ /\ faulty
                /\ \E k \in 1 .. Len(r.out) :
                     messages' = messages \o SubSeq(r.out, 1, k - 1)
                /\ task' = [task EXCEPT ![j] = Raise(@, DbError("event"))]
    /\ UNCHANGED <<threadVars, req, configVars, readerVars, peer>>

\* The engine raises (tasks.py 42-60).
TaskEngineError(j) ==
    /\ task[j].pc = "engine"
    /\ \E msg \in EngineTexts : task' = [task EXCEPT ![j] = Raise(@, Exc("engine", msg))]
    /\ UNCHANGED <<threadVars, messages, req, configVars, readerVars, peer>>

\* The engine returns its result, and the terminal flush (tasks.py 56-62).
TaskFlush(j, faulty) ==
    /\ task[j].pc = "engine"
    /\ LET r == flush_buffer(task[j].handler)
       IN  \/ /\ messages' = messages \o r.out
              /\ task' = [task EXCEPT ![j] = [@ EXCEPT !.handler = r.h, !.pc = "complete"]]
           \/ /\ faulty
              /\ r.out # <<>>
              /\ task' = [task EXCEPT ![j] = Raise(@, DbError("flush"))]
              /\ UNCHANGED messages
    /\ UNCHANGED <<threadVars, req, configVars, readerVars, peer>>

\* A final write that leaves error_message as it is.
TaskComplete_keeping_error(j, faulty) ==
    /\ task[j].pc = "complete"
    /\ status' = COMPLETED
    /\ content' = all_messages(task[j].message_history, task[j].prompt)
    /\ task' = [task EXCEPT ![j] = Ended("returned")]
    /\ UNCHANGED <<exists, error_message, thread_db, thread_model, messages, req,
                   configVars, readerVars, peer>>

\* The final write of the thread, and the return (tasks.py 63-67).
TaskComplete(j, faulty) ==
    /\ task[j].pc = "complete"
    /\ \/ /\ status' = COMPLETED
          /\ content' = all_messages(task[j].message_history, task[j].prompt)
          /\ error_message' = <<>>
          /\ task' = [task EXCEPT ![j] = Ended("returned")]
       \/ /\ faulty
          /\ task' = [task EXCEPT ![j] = Raise(@, DbError("complete"))]
          /\ UNCHANGED <<status, content, error_message>>
    /\ UNCHANGED <<exists, thread_db, thread_model, messages, req,
                   configVars, readerVars, peer>>

\* An except clause that also deletes what came after the thread's first
\* message.
TaskExcept_rolling_back(j, faulty) ==
    /\ task[j].pc = "except"
    /\ status' = ERROR
    /\ error_message' = Truncated(task[j].exc.msg)
    /\ messages' = SubSeq(messages, 1, 1)
    /\ task' = [task EXCEPT ![j] = Ended("returned")]
    /\ UNCHANGED <<exists, content, thread_db, thread_model, req, configVars,
                   readerVars, peer>>

\* An except clause that saves what the handler has buffered before it
\* writes ERROR.
TaskExcept_salvaging(j, faulty) ==
    /\ task[j].pc = "except"
    /\ status' = ERROR
    /\ error_message' = Truncated(task[j].exc.msg)
    /\ messages' = messages \o flush_buffer(task[j].handler).out
    /\ task' = [task EXCEPT ![j] = Ended("returned")]
    /\ UNCHANGED <<exists, content, thread_db, thread_model, req, configVars,
                   readerVars, peer>>

\* An except clause that swallows the exception and writes nothing.
TaskExcept_swallowing(j, faulty) ==
    /\ task[j].pc = "except"
    /\ task' = [task EXCEPT ![j] = Ended("returned")]
    /\ UNCHANGED <<threadVars, messages, req, configVars, readerVars, peer>>

\* The except clause (tasks.py 68-72): the write of ERROR, and the return; an
\* exception of that write leaves the function.
TaskExcept(j, faulty) ==
    /\ task[j].pc = "except"
    /\ \/ /\ status' = ERROR
          /\ error_message' = Truncated(task[j].exc.msg)
          /\ task' = [task EXCEPT ![j] = Ended("returned")]
       \/ /\ faulty
          /\ task' = [task EXCEPT ![j] = Ended("raised")]
          /\ UNCHANGED <<status, error_message>>
    /\ UNCHANGED <<exists, content, thread_db, thread_model, messages,
                   req, configVars, readerVars, peer>>

\* The task queue delivers the task of job j, which has returned, a second
\* time (at-least-once delivery): execution k is deferred with the arguments
\* job j was deferred with, those of create_thread (api.py 210) for job 0.
Redeliver(j, k) ==
    /\ j = 0
    /\ task[j].pc = "returned"
    /\ task[k].pc = "none"
    /\ task' = [task EXCEPT ![k] = Defer(PromptOf(j), NoDoc)]
    /\ UNCHANGED <<threadVars, messages, req, configVars, readerVars, peer>>

\* The prompt of the other thread's first turn.
PeerPrompt == <<"q0">>

\* A worker starts the execution of the other thread: the write of RUNNING
\* to the row with that thread_id (tasks.py 26) and a handler of its own
\* (tasks.py 28, streaming.py 20-24).
PeerStart ==
    /\ peer.pc = "queued"
    /\ peer' = [peer EXCEPT !.pc = "config", !.status = RUNNING, !.handler = NewHandler]
    /\ UNCHANGED <<threadVars, messages, task, req, configVars, readerVars>>

\* The config resolution of the other thread (tasks.py 34-40), which is
\* bound to the connection and the model config this thread is bound to; it
\* was deferred by create_thread, with no history to decode.
PeerConfig ==
    /\ peer.pc = "config"
    /\ LET s == ensure_user_defaults(Settings, conn_active, model_active, key_active)
           c == get_runtime_config_for_thread_id(s)
       IN  /\ default_db' = s.db
           /\ default_model' = s.model
           /\ peer' = IF c.error # <<>>
                      THEN [peer EXCEPT !.pc = "except", !.exc = Exc("config", c.error)]
                      ELSE IF c.config.database_connection = <<>>
                      THEN [peer EXCEPT !.pc = "except",
                                        !.exc = Exc("config", EmptyDatabaseConnection)]
                      ELSE [peer EXCEPT !.pc = "engine"]
    /\ UNCHANGED <<threadVars, messages, task, req, conn_active, model_active,
                   key_active, rowVars, readerVars>>

\* Executions that share one handler: the events of the other thread go
\* through the handler of this thread's execution.
PeerEvent_sharing_handler(events, max) ==
    /\ peer.pc = "engine"
    /\ Len(peer.events) < max
    /\ \E event \in events :
         LET r == on_event(task[0].handler, event)
         IN  /\ peer' = [peer EXCEPT !.messages = @ \o r.out,
                                     !.events = Append(@, event)]
             /\ task' = [task EXCEPT ![0].handler = r.h]
    /\ UNCHANGED <<threadVars, messages, req, configVars, readerVars>>

\* The engine of the other execution emits an event, which its handler
\* handles; the messages are created with the handler's thread_id
\* (streaming.py 95-100).
PeerEvent(events, max) ==
    /\ peer.pc = "engine"
    /\ Len(peer.events) < max
    /\ \E event \in events :
         LET r == on_event(peer.handler, event)
         IN  peer' = [peer EXCEPT !.messages = @ \o r.out, !.handler = r.h,
                                  !.events = Append(@, event)]
    /\ UNCHANGED <<threadVars, messages, task, req, configVars, readerVars>>

\* The engine of the other execution raises (tasks.py 42-60).
PeerEngineError ==
    /\ peer.pc = "engine"
    /\ \E msg \in EngineTexts :
         peer' = [peer EXCEPT !.pc = "except", !.exc = Exc("engine", msg)]
    /\ UNCHANGED <<threadVars, messages, task, req, configVars, readerVars>>

\* The engine of the other execution returns, and the terminal flush
\* (tasks.py 56-62).
PeerFlush ==
    /\ peer.pc = "engine"
    /\ LET r == flush_buffer(peer.handler)
       IN  peer' = [peer EXCEPT !.messages = @ \o r.out, !.handler = r.h,
                                !.pc = "complete"]
    /\ UNCHANGED <<threadVars, messages, task, req, configVars, readerVars>>

\* The final write of the other thread, and the return (tasks.py 63-67).
PeerComplete ==
    /\ peer.pc = "complete"
    /\ peer' = [peer EXCEPT !.pc = "returned", !.status = COMPLETED,
                            !.content = all_messages(NoDoc, PeerPrompt),
                            !.error_message = <<>>]
    /\ UNCHANGED <<threadVars, messages, task, req, configVars, readerVars>>

\* The except clause of the other execution (tasks.py 68-72).
PeerExcept ==
    /\ peer.pc = "except"
    /\ peer' = [peer EXCEPT !.pc = "returned", !.status = ERROR,
                            !.error_message = Truncated(peer.exc.msg)]
    /\ UNCHANGED <<threadVars, messages, task, req, configVars, readerVars>>

\* ---------------------------------------------------------- specifications

\* The user has an active and a removed (inactive) database connection, an
\* active and a removed model config, one active API key, and has chosen no
\* defaults yet; there is no thread.
Init ==
    /\ exists = FALSE
    /\ status = None
    /\ content = NoDoc
    /\ error_message = <<>>
    /\ thread_db = 0
    /\ thread_model = 0
    /\ messages = <<>>
    /\ task = [j \in Jobs |-> NoTask]
    /\ req = [r \in Reqs |-> NewReq]
    /\ conn_active = [d \in DbIds |-> d = 1]
    /\ model_active = [m \in ModelIds |-> m = 1]
    /\ key_active = [k \in KeyIds |-> TRUE]
    /\ default_db = 0
    /\ default_model = 0
    /\ conn_string = [d \in DbIds |-> RowText("c", d)]
    /\ memory = [d \in DbIds |-> <<>>]
    /\ model_name = [m \in ModelIds |-> RowText("m", m)]
    /\ api_key = [k \in KeyIds |-> RowText("k", k)]
    /\ model_key = [m \in ModelIds |-> 1]
    /\ response = NoResponse
    /\ received = <<>>
    /\ peer = NoPeer

\* The thread endpoints, the settings endpoint and the workers, interleaved.
Next ==
    \/ CreateThread(DbSelections, ModelSelections)
    \/ \E r \in Reqs :
         \/ ContinueThreadLoad(r, DbSelections, ModelSelections)
         \/ ContinueThreadMessage(r)
         \/ ContinueThreadSave(r)
    \/ SetDatabaseConnectionActive({1})
    \/ \E j \in Jobs :
         \/ TaskStart(j, Unreliable)
         \/ TaskConfig(j)
         \/ TaskEvent(j, LifeEvents, MaxLifeEvents, Unreliable)
         \/ TaskEngineError(j)
         \/ TaskFlush(j, Unreliable)
         \/ TaskComplete(j, Unreliable)
         \/ TaskExcept(j, Unreliable)

Spec == Init /\ [][Next]_vars

\* One execution, on the thread create_thread made, over every stream of
\* events, with a database whose writes succeed and an engine that returns.
NextAgg ==
    \/ CreateThread({Absent}, {Absent})
    \/ TaskStart(0, Reliable)
    \/ TaskConfig(0)
    \/ TaskEvent(0, AggEvents, MaxEvents, Reliable)
    \/ TaskFlush(0, Reliable)
    \/ TaskComplete(0, Reliable)

SpecAgg == Init /\ [][NextAgg]_vars

\* One execution, on the thread create_thread made, and the clients that
\* read the thread's messages while it runs.
NextPoll ==
    \/ CreateThread({Absent}, {Absent})
    \/ TaskStart(0, Reliable)
    \/ TaskConfig(0)
    \/ TaskEvent(0, LifeEvents, MaxPollEvents, Reliable)
    \/ TaskFlush(0, Reliable)
    \/ TaskComplete(0, Reliable)
    \/ GetMessages
    \/ ReaderPoll

SpecPoll == Init /\ [][NextPoll]_vars

\* A thread whose first execution is deferred, of a user whose rows are in
\* any of the states the requests leave them in, each save of a request
\* being a transaction of its own (add_database_connection creates an active
\* row before it chooses a default, set_database_connection_active saves the
\* flag before it clears the default): the thread bound to a connection and
\* a model or to none, a default chosen or not, each row active or not.
InitCfg ==
    /\ exists = TRUE
    /\ status = PENDING
    /\ content = EmptyDict
    /\ error_message = <<>>
    /\ thread_db \in {0} \cup DbIds
    /\ thread_model \in {0} \cup ModelIds
    /\ messages = <<Message(USER, [text |-> PromptOf(0)])>>
    /\ task = [j \in Jobs |-> IF j = 0 THEN Defer(PromptOf(0), NoDoc) ELSE NoTask]
    /\ req = [r \in Reqs |-> NewReq]
    /\ conn_active \in [DbIds -> BOOLEAN]
    /\ model_active \in [ModelIds -> BOOLEAN]
    /\ key_active \in [KeyIds -> BOOLEAN]
    /\ default_db \in {0} \cup DbIds
    /\ default_model \in {0} \cup ModelIds
    /\ conn_string = [d \in DbIds |-> RowText("c", d)]
    /\ memory = [d \in DbIds |-> <<>>]
    /\ model_name = [m \in ModelIds |-> RowText("m", m)]
    /\ api_key = [k \in KeyIds |-> RowText("k", k)]
    /\ model_key = [m \in ModelIds |-> 1]
    /\ response = NoResponse
    /\ received = <<>>
    /\ peer = NoPeer

\* The executions of two turns of the thread, whose engine returns at once,
\* and the settings requests of the user between and during them.
NextCfg ==
    \/ \E j \in {0, 1} :
         \/ TaskStart(j, Reliable)
         \/ TaskConfig(j)
         \/ TaskFlush(j, Reliable)
         \/ TaskComplete(j, Reliable)
         \/ TaskExcept(j, Reliable)
    \/ ContinueThreadLoad(1, {Absent}, {Absent})
    \/ ContinueThreadMessage(1)
    \/ ContinueThreadSave(1)
    \/ SetDatabaseConnectionActive(DbIds)
    \/ UpdateDatabaseConnection({1})

SpecCfg == InitCfg /\ [][NextCfg]_vars

\* A thread whose first execution is deferred, bound to the first connection
\* and model config or to none, of a user all of whose rows are active and
\* whose defaults are the first rows.
InitEdit ==
    /\ InitCfg
    /\ thread_db \in {0, 1}
    /\ thread_model \in {0, 1}
    /\ \A d \in DbIds : conn_active[d]
    /\ \A m \in ModelIds : model_active[m]
    /\ \A k \in KeyIds : key_active[k]
    /\ default_db = 1
    /\ default_model = 1

\* The executions of two turns of the thread, whose engine returns at once,
\* and the settings requests of the user before, between and during them:
\* the activity of every row and the texts of the first rows.
NextEdit ==
    \/ \E j \in {0, 1} :
         \/ TaskStart(j, Reliable)
         \/ TaskConfig(j)
         \/ TaskFlush(j, Reliable)
         \/ TaskComplete(j, Reliable)
         \/ TaskExcept(j, Reliable)
    \/ ContinueThreadLoad(1, {Absent}, {Absent})
    \/ ContinueThreadMessage(1)
    \/ ContinueThreadSave(1)
    \/ SetDatabaseConnectionActive(DbIds)
    \/ SetModelConfigActive(ModelIds)
    \/ SetApiKeyActive
    \/ UpdateDatabaseConnection({1})
    \/ UpdateModelConfig({1}, {Absent})
    \/ UpdateApiKey

SpecEdit == InitEdit /\ [][NextEdit]_vars

\* The texts a TextField column can hold: the columns have no validators, so
\* a row written by the admin site or a data migration can be empty, blank
\* or padded with blanks.
ColumnTexts(letter) == {<<>>, <<" ">>, <<letter>>, <<" ", letter, " ">>}

\* A thread whose first execution is deferred, bound to the first connection
\* and model config or to none, of a user whose rows are active, whose
\* defaults are the first rows, and whose first rows hold any column text.
InitRows ==
    /\ exists = TRUE
    /\ status = PENDING
    /\ content = EmptyDict
    /\ error_message = <<>>
    /\ thread_db \in {0, 1}
    /\ thread_model \in {0, 1}
    /\ messages = <<Message(USER, [text |-> PromptOf(0)])>>
    /\ task = [j \in Jobs |-> IF j = 0 THEN Defer(PromptOf(0), NoDoc) ELSE NoTask]
    /\ req = [r \in Reqs |-> NewReq]
    /\ conn_active = [d \in DbIds |-> TRUE]
    /\ model_active = [m \in ModelIds |-> TRUE]
    /\ key_active = [k \in KeyIds |-> TRUE]
    /\ default_db = 1
    /\ default_model = 1
    /\ \E c \in ColumnTexts("c") :
           conn_string = [d \in DbIds |-> IF d = 1 THEN c ELSE RowText("c", d)]
    /\ \E n \in ColumnTexts("n") :
           memory = [d \in DbIds |-> IF d = 1 THEN n ELSE <<>>]
    /\ \E m \in ColumnTexts("m") :
           model_name = [i \in ModelIds |-> IF i = 1 THEN m ELSE RowText("m", i)]
    /\ \E k \in ColumnTexts("k") : api_key = [i \in KeyIds |-> k]
    /\ model_key = [m \in ModelIds |-> 1]
    /\ response = NoResponse
    /\ received = <<>>
    /\ peer = NoPeer

\* The execution of the thread's first turn, whose engine returns at once.
NextRows ==
    \/ TaskStart(0, Reliable)
    \/ TaskConfig(0)
    \/ TaskFlush(0, Reliable)
    \/ TaskComplete(0, Reliable)
    \/ TaskExcept(0, Reliable)

SpecRows == InitRows /\ [][NextRows]_vars

\* The documents run_sqlsaber_query can be passed as message_history: None,
\* the JSON values that are no list ({} - the default of Thread.content -
\* and a dict with a key), the empty list, a transcript of one turn, a list
\* whose element has not the shape of a ModelMessage, and a transcript
\* followed by such an element.
Garbled == [kind |-> "other", prompt |-> <<>>]
HistoryDocs ==
    {NoDoc, EmptyDict,
     Doc("dict", <<ModelRequest(PromptOf(0))>>),
     Doc("list", <<>>),
     Doc("list", <<ModelRequest(PromptOf(0))>>),
     Doc("list", <<Garbled>>),
     Doc("list", <<ModelRequest(PromptOf(0)), Garbled>>)}

\* A thread of a configured user, whose first turn has ended in ERROR or
\* COMPLETED and whose second turn's prompt is saved, and an execution
\* deferred for it with any document as message_history.
InitHist ==
    /\ exists = TRUE
    /\ status = PENDING
    /\ content \in {EmptyDict, Doc("list", <<ModelRequest(PromptOf(0))>>)}
    /\ error_message \in {<<>>, <<"e">>}
    /\ thread_db = 1
    /\ thread_model = 1
    /\ messages = <<Message(USER, [text |-> PromptOf(0)]),
                    Message(USER, [text |-> PromptOf(1)])>>
    /\ \E doc \in HistoryDocs :
           task = [j \in Jobs |-> IF j = 1 THEN Defer(PromptOf(1), doc) ELSE NoTask]
    /\ req = [r \in Reqs |-> NewReq]
    /\ conn_active = [d \in DbIds |-> d = 1]
    /\ model_active = [m \in ModelIds |-> m = 1]
    /\ key_active = [k \in KeyIds |-> TRUE]
    /\ default_db = 1
    /\ default_model = 1
    /\ conn_string = [d \in DbIds |-> RowText("c", d)]
    /\ memory = [d \in DbIds |-> <<>>]
    /\ model_name = [m \in ModelIds |-> RowText("m", m)]
    /\ api_key = [k \in KeyIds |-> RowText("k", k)]
    /\ model_key = [m \in ModelIds |-> 1]
    /\ response = NoResponse
    /\ received = <<>>
    /\ peer = NoPeer

\* The execution, whose engine emits events and returns or raises.
NextHist ==
    \/ TaskStart(1, Reliable)
    \/ TaskConfig(1)
    \/ TaskEvent(1, LifeEvents, MaxPollEvents, Reliable)
    \/ TaskEngineError(1)
    \/ TaskFlush(1, Reliable)
    \/ TaskComplete(1, Reliable)
    \/ TaskExcept(1, Reliable)

SpecHist == InitHist /\ [][NextHist]_vars

\* The execution create_thread defers, whose engine emits events and returns
\* or raises, and a second delivery of its task after it has returned.
NextRedeliver ==
    \/ CreateThread({Absent}, {Absent})
    \/ \E j \in {0, 1} :
         \/ TaskStart(j, Reliable)
         \/ TaskConfig(j)
         \/ TaskEvent(j, LifeEvents, MaxLifeEvents, Reliable)
         \/ TaskEngineError(j)
         \/ TaskFlush(j, Reliable)
         \/ TaskComplete(j, Reliable)
         \/ TaskExcept(j, Reliable)
    \/ Redeliver(0, 1)

SpecRedeliver == Init /\ [][NextRedeliver]_vars

\* Two threads of the user, each PENDING with the user message of its first
\* turn and its first execution deferred, as create_thread left them; the
\* connection bound to them is active or was deactivated since.
InitTwo ==
    /\ exists = TRUE
    /\ status = PENDING
    /\ content = EmptyDict
    /\ error_message = <<>>
    /\ thread_db = 1
    /\ thread_model = 1
    /\ messages = <<Message(USER, [text |-> PromptOf(0)])>>
    /\ task = [j \in Jobs |-> IF j = 0 THEN Defer(PromptOf(0), NoDoc) ELSE NoTask]
    /\ req = [r \in Reqs |-> NewReq]
    /\ conn_active \in {[d \in DbIds |-> d = 1], [d \in DbIds |-> FALSE]}
    /\ model_active = [m \in ModelIds |-> m = 1]
    /\ key_active = [k \in KeyIds |-> TRUE]
    /\ default_db = IF conn_active[1] THEN 1 ELSE 0
    /\ default_model = 1
    /\ conn_string = [d \in DbIds |-> RowText("c", d)]
    /\ memory = [d \in DbIds |-> <<>>]
    /\ model_name = [m \in ModelIds |-> RowText("m", m)]
    /\ api_key = [k \in KeyIds |-> RowText("k", k)]
    /\ model_key = [m \in ModelIds |-> 1]
    /\ response = NoResponse
    /\ received = <<>>
    /\ peer = Peer("queued", PENDING, EmptyDict, <<>>,
                   <<Message(USER, [text |-> PeerPrompt])>>, NewHandler, <<>>, NoExc)

\* The executions of the two threads, on two workers, interleaved.
NextTwo ==
    \/ TaskStart(0, Reliable)
    \/ TaskConfig(0)
    \/ TaskEvent(0, LifeEvents, MaxPollEvents, Reliable)
    \/ TaskEngineError(0)
    \/ TaskFlush(0, Reliable)
    \/ TaskComplete(0, Reliable)
    \/ TaskExcept(0, Reliable)
    \/ PeerStart
    \/ PeerConfig
    \/ PeerEvent(LifeEvents, MaxPollEvents)
    \/ PeerEngineError
    \/ PeerFlush
    \/ PeerComplete
    \/ PeerExcept

SpecTwo == InitTwo /\ [][NextTwo]_vars

\* A thread whose second turn has COMPLETED, of a configured user, and a
\* continue_thread request that read the thread and passed its checks
\* before that turn was deferred (the requests are not serialised: the
\* checks of api.py 289-318 and the writes of 320-340 are apart) and has
\* written nothing yet.
InitStale ==
    /\ exists = TRUE
    /\ status = COMPLETED
    /\ content = Doc("list", <<ModelRequest(PromptOf(0)), ModelRequest(PromptOf(3))>>)
    /\ error_message = <<>>
    /\ thread_db = 1
    /\ thread_model = 1
    /\ messages = <<Message(USER, [text |-> PromptOf(0)]),
                    Message(USER, [text |-> PromptOf(3)])>>
    /\ task = [j \in Jobs |-> NoTask]
    /\ req = [r \in Reqs |->
                 IF r = 1
                 THEN [pc |-> "loaded", prompt |-> PromptOf(1), db |-> 1, model |-> 1,
                       content |-> Doc("list", <<ModelRequest(PromptOf(0))>>),
                       response |-> 0]
                 ELSE NewReq]
    /\ conn_active = [d \in DbIds |-> d = 1]
    /\ model_active = [m \in ModelIds |-> m = 1]
    /\ key_active = [k \in KeyIds |-> TRUE]
    /\ default_db = 1
    /\ default_model = 1
    /\ conn_string = [d \in DbIds |-> RowText("c", d)]
    /\ memory = [d \in DbIds |-> <<>>]
    /\ model_name = [m \in ModelIds |-> RowText("m", m)]
    /\ api_key = [k \in KeyIds |-> RowText("k", k)]
    /\ model_key = [m \in ModelIds |-> 1]
    /\ response = NoResponse
    /\ received = <<>>
    /\ peer = NoPeer

\* That request, a later one, and the executions they defer.
NextStale ==
    \/ ContinueThreadLoad(2, {Absent}, {Absent})
    \/ \E r \in Reqs :
         \/ ContinueThreadMessage(r)
         \/ ContinueThreadSave(r)
         \/ TaskStart(r, Reliable)
         \/ TaskConfig(r)
         \/ TaskEngineError(r)
         \/ TaskFlush(r, Reliable)
         \/ TaskComplete(r, Reliable)
         \/ TaskExcept(r, Reliable)

SpecStale == InitStale /\ [][NextStale]_vars

\* The user's API keys in the settings specification.
SettingsKeyIds == {1, 2}

\* A user with two connections, the first active and the default, two
\* active API keys and one model config, active, with the first key and the
\* default; a second model config is not created yet. There is no thread.
InitSettings ==
    /\ exists = FALSE
    /\ status = None
    /\ content = NoDoc
    /\ error_message = <<>>
    /\ thread_db = 0
    /\ thread_model = 0
    /\ messages = <<>>
    /\ task = [j \in Jobs |-> NoTask]
    /\ req = [r \in Reqs |-> NewReq]
    /\ conn_active = [d \in DbIds |-> d = 1]
    /\ model_active = [m \in ModelIds |-> m = 1]
    /\ key_active = [k \in SettingsKeyIds |-> TRUE]
    /\ default_db = 1
    /\ default_model = 1
    /\ conn_string = [d \in DbIds |-> RowText("c", d)]
    /\ memory = [d \in DbIds |-> <<>>]
    /\ model_name = [m \in ModelIds |-> RowText("m", m)]
    /\ api_key = [k \in SettingsKeyIds |-> RowText("k", k)]
    /\ model_key = [m \in ModelIds |-> IF m = 1 THEN 1 ELSE 0]
    /\ response = NoResponse
    /\ received = <<>>
    /\ peer = NoPeer

\* The settings requests of the user, one after the other, each run to
\* completion.
NextSettings ==
    \/ SetDatabaseConnectionActive(DbIds)
    \/ SetApiKeyActive
    \/ AddModelConfig(KeySelections)
    \/ UpdateModelConfig(ModelIds, KeySelections)
    \/ SetModelConfigActive(ModelIds)
    \/ UpdateUserSettings

SpecSettings == InitSettings /\ [][NextSettings]_vars

\* ------------------------------------------------------------ properties

Last(q) == q[Len(q)]

\* The executions that are deferred or running.
ActivePc == {"queued", "config", "engine", "complete", "except"}
Active == {j \in Jobs : task[j].pc \in ActivePc}

\* Job j takes the step in which run_sqlsaber_query returns.
Returns(j) == task[j].pc \in ActivePc /\ task'[j].pc = "returned"

\* C1: an execution that has written RUNNING leaves the thread COMPLETED or
\* ERROR in the step in which it returns, whatever step of it failed.
C1_TerminalOnReturn ==
    [][\A j \in Jobs :
         (Returns(j) /\ task[j].ran) => status' \in {COMPLETED, ERROR}]_vars

\* C1, its case: an execution has returned after the engine raised in
\* mid-stream, with a message of the stream already persisted.
C1_Witness ==
    /\ task[0].pc = "returned"
    /\ status = ERROR
    /\ error_message = <<"e">>
    /\ Len(messages) = 2
    /\ messages[2].type = TOOL_CALL

\* C2: no exception leaves run_sqlsaber_query.
C2_NeverPropagates == \A j \in Jobs : task[j].pc # "raised"

\* The changes of Thread.status the lifecycle allows.
AllowedChange ==
    {<<PENDING, RUNNING>>, <<RUNNING, COMPLETED>>, <<RUNNING, ERROR>>,
     <<COMPLETED, PENDING>>, <<ERROR, PENDING>>}

\* C3: every change of the status of the thread is PENDING->RUNNING,
\* RUNNING->COMPLETED, RUNNING->ERROR, COMPLETED->PENDING or ERROR->PENDING.
C3_StatusChanges ==
    [][(exists /\ status' # status) => <<status, status'>> \in AllowedChange]_vars

\* C4: the thread has at most one deferred or running execution.
C4_OneExecution == Cardinality(Active) <= 1

\* Request r takes the step of continue_thread that reads the thread.
Reads(r) == req[r].pc = "new" /\ req'[r].pc # "new"

\* C5: continue_thread on a thread that is RUNNING or PENDING answers 409
\* and changes neither the thread's status, connection and model, nor the
\* messages, nor the deferred jobs; it goes on to write only from COMPLETED
\* or ERROR.
C5_RejectedUnlessTerminal ==
    [][\A r \in Reqs :
         /\ (Reads(r) /\ status \in {RUNNING, PENDING}) =>
                /\ req'[r].pc = "done"
                /\ req'[r].response = 409
                /\ UNCHANGED <<status, thread_db, thread_model, messages, task>>
         /\ (Reads(r) /\ req'[r].pc = "loaded") => status \in {COMPLETED, ERROR}]_vars

\* C5, its case: request 1 was answered 409 on the running thread (no
\* other request has been made, so the thread was in its first execution).
C5_Witness ==
    /\ req[1].pc = "done"
    /\ req[1].response = 409
    /\ req[2].pc = "new"
    /\ status = RUNNING
    /\ Len(messages) = 1

\* Job j takes the step in which the handler is passed an event.
Handles(j) ==
    /\ task[j].pc = "engine"
    /\ task'[j].pc = "engine"
    /\ Len(task'[j].events) = Len(task[j].events) + 1

\* The type of the message a flush saves for a buffer of kind `kind`.
FlushedType(kind) == IF kind = ThinkingPart THEN THINKING ELSE ASSISTANT

SwitchesKind(j) ==
    /\ Handles(j)
    /\ Last(task'[j].events).ev = "PartStartEvent"
    /\ Last(task'[j].events).kind \in {TextPart, ThinkingPart}
    /\ task[j].handler.kind \notin {None, Last(task'[j].events).kind}

\* C7 as stated: a part start of the other kind persists a message of the
\* open unit's kind with exactly the content accumulated so far, before the
\* new part's content is buffered.
C7_SwitchAlwaysPersists ==
    [][\A j \in Jobs :
         SwitchesKind(j) =>
             /\ messages' = Append(messages,
                    Message(FlushedType(task[j].handler.kind),
                            [text |-> task[j].handler.buffer]))
             /\ task'[j].handler.buffer = Last(task'[j].events).content]_vars

\* C7 as amended: a part start of the other kind persists a message of the
\* open unit's kind with exactly the content accumulated so far when that
\* content is not empty, and persists nothing when it is empty; either way
\* the buffer then holds the content of the new part alone.
C7_SwitchFlushes ==
    [][\A j \in Jobs :
         SwitchesKind(j) =>
             /\ messages' =
                    IF task[j].handler.buffer = <<>> THEN messages
                    ELSE Append(messages,
                             Message(FlushedType(task[j].handler.kind),
                                     [text |-> task[j].handler.buffer]))
             /\ task'[j].handler.buffer = Last(task'[j].events).content
             /\ task'[j].handler.kind = Last(task'[j].events).kind]_vars

\* C7, its case: a thinking part with a delta, then a text part with no
\* part end between them; the thinking message is persisted and the buffer
\* holds the text alone.
C7_Witness ==
    /\ task[0].pc = "engine"
    /\ task[0].events = <<PartStart(ThinkingPart, <<"R">>), PartDelta(ThinkingPart, <<"r">>),
                          PartStart(TextPart, <<"T">>)>>
    /\ Last(messages) = Message(THINKING, [text |-> <<"R", "r">>])
    /\ task[0].handler = [buffer |-> <<"T">>, kind |-> TextPart]

\* The texts of the assistant and thinking messages of `msgs`, in order.
IsNarration(m) == m.type \in {ASSISTANT, THINKING}
NarrationOf(msgs) == SelectSeq(msgs, IsNarration)

RECURSIVE Texts(_)
Texts(msgs) ==
    IF msgs = <<>> THEN <<>>
    ELSE <<msgs[1].content.text>> \o Texts(Tail(msgs))

RECURSIVE Concat(_)
Concat(texts) ==
    IF texts = <<>> THEN <<>> ELSE texts[1] \o Concat(Tail(texts))

\* Reading `evs` as text units, PartStart(text) PartDelta(text)* PartEnd
\* with the last part end optional: whether it reads so, whether a unit is
\* open at its end, and the content of each unit.
RECURSIVE TextUnits(_)
TextUnits(evs) ==
    IF evs = <<>> THEN [ok |-> TRUE, open |-> FALSE, units |-> <<>>]
    ELSE LET p == TextUnits(SubSeq(evs, 1, Len(evs) - 1))
             e == Last(evs)
         IN  IF ~p.ok THEN p
             ELSE IF e.ev = "PartStartEvent" /\ e.kind = TextPart /\ ~p.open
                  THEN [ok |-> TRUE, open |-> TRUE, units |-> Append(p.units, e.content)]
             ELSE IF e.ev = "PartDeltaEvent" /\ e.kind = TextPart /\ p.open
                  THEN [p EXCEPT !.units[Len(p.units)] = @ \o e.content]
             ELSE IF e.ev = "PartEndEvent" /\ p.open
                  THEN [p EXCEPT !.open = FALSE]
             ELSE [p EXCEPT !.ok = FALSE]

NonEmpty(text) == text # <<>>

\* The messages the handler of job j has persisted once its stream is over
\* (the thread's first message is the user's prompt; job 0 is the only job
\* of the aggregation specification).
Persisted == SubSeq(messages, 2, Len(messages))

\* C8 as stated: after a stream of text units, there is one assistant
\* message per unit, and the i-th message is the content of the i-th unit.
C8_OneMessagePerUnit ==
    (task[0].pc = "complete" /\ TextUnits(task[0].events).ok) =>
        /\ \A i \in 1..Len(Persisted) : Persisted[i].type = ASSISTANT
        /\ Texts(Persisted) = TextUnits(task[0].events).units

\* C8 as amended: after a stream of text units, there is one assistant
\* message per unit of non-empty content, and the i-th message is the
\* content of the i-th such unit; a unit with no content leaves no message.
C8_OneMessagePerNonEmptyUnit ==
    (task[0].pc = "complete" /\ TextUnits(task[0].events).ok) =>
        /\ \A i \in 1..Len(Persisted) : Persisted[i].type = ASSISTANT
        /\ Texts(Persisted) = SelectSeq(TextUnits(task[0].events).units, NonEmpty)

\* C8, its case: the stream was two text units, the first with a delta and
\* a part end, the second left open to the terminal flush.
C8_Witness ==
    /\ task[0].pc = "complete"
    /\ task[0].events = <<PartStart(TextPart, <<"T">>), PartDelta(TextPart, <<"t">>), PartEnd,
                          PartStart(TextPart, <<"T">>)>>
    /\ Texts(Persisted) = << <<"T", "t">>, <<"T">> >>

\* The text and reasoning fragments of `evs`, in the order of arrival.
RECURSIVE Streamed(_)
Streamed(evs) ==
    IF evs = <<>> THEN <<>>
    ELSE (IF /\ evs[1].ev \in {"PartStartEvent", "PartDeltaEvent"}
             /\ evs[1].kind \in {TextPart, ThinkingPart}
          THEN evs[1].content ELSE <<>>) \o Streamed(Tail(evs))

\* C9: when an execution ends COMPLETED, the texts of its assistant and
\* thinking messages, concatenated in order, are the text and reasoning
\* fragments of its stream concatenated in the order of arrival.
C9_NothingLost ==
    [][\A j \in Jobs :
         (Returns(j) /\ status' = COMPLETED /\ task[j].pc = "complete") =>
             Concat(Texts(NarrationOf(Persisted'))) = Streamed(task[j].events)]_vars

\* The fragments of text parts and text deltas, and those of thinking parts
\* and thinking deltas.
TextFragments == {"T", "t"}
ReasoningFragments == {"R", "r"}
Range(q) == {q[i] : i \in 1..Len(q)}

\* C10: a thinking message holds reasoning fragments only and an assistant
\* message holds text fragments only.
C10_KindsKeptApart ==
    \A i \in 1..Len(messages) :
        /\ messages[i].type = THINKING =>
               Range(messages[i].content.text) \subseteq ReasoningFragments
        /\ messages[i].type = ASSISTANT =>
               Range(messages[i].content.text) \subseteq TextFragments

\* Job j takes the step of the terminal flush.
FlushesAtEnd(j) == task[j].pc = "engine" /\ task'[j].pc = "complete"

\* C11: flush_buffer on an empty buffer saves no message and leaves buffer
\* and kind as they are; so does a second flush_buffer directly after a
\* first, and the terminal flush of a stream whose last unit was closed.
C11_FlushIdempotent ==
    [][\A j \in Jobs :
         LET h == task[j].handler
         IN  /\ h.buffer = <<>> => flush_buffer(h) = [h |-> h, out |-> <<>>]
             /\ flush_buffer(flush_buffer(h).h) =
                    [h |-> flush_buffer(h).h, out |-> <<>>]
             /\ (FlushesAtEnd(j) /\ h.buffer = <<>>) =>
                    (messages' = messages /\ task'[j].handler = h)]_vars

\* C11, its case: the terminal flush ran after a stream whose only unit had
\* been closed by its part end, and the unit's message is the only one.
C11_Witness ==
    /\ task[0].pc = "complete"
    /\ task[0].events = <<PartStart(TextPart, <<"T">>), PartEnd>>
    /\ Texts(Persisted) = << <<"T">> >>

\* The messages the events `evs`, handled in order by a handler in state h,
\* cause to be saved: those of the first event, then those of the second, ...
RECURSIVE Caused(_, _)
Caused(h, evs) ==
    IF evs = <<>> THEN <<>>
    ELSE on_event(h, evs[1]).out \o Caused(on_event(h, evs[1]).h, Tail(evs))

\* C12: the messages of an execution are, in sequence order, the messages
\* its first event caused, then those its second event caused, and so on:
\* a message caused by an earlier event precedes every message caused by a
\* later one.
C12_OrderOfEvents ==
    task[0].pc = "engine" => Persisted = Caused(NewHandler, task[0].events)

\* C12, its case: a text part, then a tool call (which flushes the text and
\* saves the call), then a tool result; three messages in that order.
C12_Witness ==
    /\ task[0].pc = "engine"
    /\ task[0].events = <<PartStart(TextPart, <<"T">>), ToolCall, ToolResult>>
    /\ Len(Persisted) = 3
    /\ Persisted[1].type = ASSISTANT
    /\ Persisted[2].type = TOOL_CALL
    /\ Persisted[3].type = TOOL_RESULT

\* C13: messages are append-only: a step leaves every message there is at
\* its position with its type and content, and a new message gets a position
\* above all of them.
C13_AppendOnly ==
    [][/\ Len(messages') >= Len(messages)
       /\ \A i \in 1 .. Len(messages) : messages'[i] = messages[i]]_vars

\* C13, its case: the thread has the prompt of create_thread, a message of
\* the first execution and the prompt of a continue_thread, in that order.
C13_Witness ==
    /\ Len(messages) >= 3
    /\ messages[1] = Message(USER, [text |-> PromptOf(0)])
    /\ messages[2].type \in {ASSISTANT, TOOL_CALL}
    /\ messages[3].type = USER
    /\ messages[3].content.text # PromptOf(0)

\* Job j takes the step in which the engine raises.
EngineRaises(j) ==
    /\ task[j].pc = "engine"
    /\ task'[j].pc = "except"
    /\ task'[j].exc.step = "engine"

\* C14: when the engine raises, the messages persisted so far stay as they
\* are, and the execution returns with the thread in ERROR, again with every
\* message as it was: the error path rolls nothing back.
C14_NoRollback ==
    [][\A j \in Jobs :
         /\ EngineRaises(j) => messages' = messages
         /\ (Returns(j) /\ task[j].exc.step = "engine") =>
                (status' = ERROR /\ messages' = messages)]_vars

\* C14, its case: the engine raised (an exception of a long text) after the
\* execution had persisted a tool call; the thread is in ERROR and the tool
\* call is still there.
C14_Witness ==
    /\ task[0].pc = "returned"
    /\ status = ERROR
    /\ Len(error_message) = ErrorLimit
    /\ Len(messages) = 2
    /\ messages[2] = Message(TOOL_CALL, [tool_name |-> ToolCall.tool,
                                         tool_args |-> ToolCall.content])

\* C15: a thread in ERROR has an error_message that is not empty and has at
\* most 1000 characters.
C15_ErrorDescribed ==
    status = ERROR => (error_message # <<>> /\ Len(error_message) <= ErrorLimit)

\* Job j takes the step of the final write after the engine succeeded.
Completes(j) == task[j].pc = "complete" /\ Returns(j)

\* C16: the final write of a successful execution comes after the terminal
\* flush (nothing is left to flush, no message is written with or after
\* it) and sets status COMPLETED, content to the transcript of the engine's
\* result and error_message to ""; content is written by no other step, so
\* a COMPLETED thread has an empty error_message and the transcript of the
\* execution that completed last.
C16_CompletedWrite ==
    [][/\ \A j \in Jobs :
            Completes(j) =>
                /\ flush_buffer(task[j].handler).out = <<>>
                /\ messages' = messages
                /\ status' = COMPLETED
                /\ content' = Doc("list", Append(task[j].message_history.items,
                                                 ModelRequest(task[j].prompt)))
                /\ error_message' = <<>>
       /\ (exists /\ content' # content) => \E j \in Jobs : Completes(j)
       /\ status' = COMPLETED => (error_message' = <<>> /\ content'.type = "list")]_vars

\* C16, its case: the second turn completed after the first; the thread is
\* COMPLETED with the transcript of both turns and no error_message.
C16_Witness ==
    /\ status = COMPLETED
    /\ task[1].pc = "returned"
    /\ content = Doc("list", <<ModelRequest(PromptOf(0)), ModelRequest(PromptOf(1))>>)
    /\ error_message = <<>>

\* The ids of the entries of a response body.
IdsOf(entries) == {entries[k].id : k \in 1 .. Len(entries)}

\* C17: get_messages with after = c answers exactly the messages of id above
\* c, by increasing id, each with its type and content; and what a reader
\* that polls with the largest id it has received has got is, after each of
\* its polls, every message of the thread exactly once and in order.
C17_PollAfterCursor ==
    [][/\ (/\ response' # response
           /\ response'.code = 200
           /\ response'.after.type = "int") =>
              LET c == response'.after.id
                  out == response'.messages
              IN  /\ IdsOf(out) = {i \in 1 .. Len(messages) : i > c}
                  /\ \A k \in 1 .. Len(out) - 1 : out[k].id < out[k + 1].id
                  /\ \A k \in 1 .. Len(out) :
                         /\ out[k].type = messages[out[k].id].type
                         /\ out[k].content = messages[out[k].id].content
       /\ Len(received') <= Len(messages')
       /\ \A i \in 1 .. Len(received') :
              received'[i] = [id |-> i, type |-> messages'[i].type,
                              content |-> messages'[i].content]
       /\ received' # received => Len(received') = Len(messages)]_vars

\* C17, its case: the reader polled, then polled with after = 1 and was
\* sent the one message written in between, and a third message has been
\* written since.
C17_Witness ==
    /\ Len(received) = 2
    /\ response.after = After(1)
    /\ IdsOf(response.messages) = {2}
    /\ Len(messages) = 3

\* Job j takes the step in which it calls get_runtime_config_for_thread_id.
Resolves(j) ==
    /\ task[j].pc = "config"
    /\ task'[j].pc \in {"engine", "except"}
    /\ task'[j].exc # ValidationError

\* The connection the resolution is to choose when the user's default is
\* `default`: the bound one if present and active, else the default if
\* present and active, else none (0).
DbToChoose(default) ==
    IF thread_db # 0 /\ conn_active[thread_db] THEN thread_db
    ELSE IF default # 0 /\ conn_active[default] THEN default
    ELSE 0

\* A resolution of job j that chooses connection d (0: none): with none it
\* raises the no-active-database error and returns no config, with one it
\* does not raise that error and the config it returns is of d.
ChoosesDb(j, d) ==
    IF d = 0
    THEN /\ task'[j].pc = "except"
         /\ task'[j].exc.msg = NoActiveDatabase
         /\ task'[j].config = NoConfig
    ELSE /\ task'[j].exc.msg # NoActiveDatabase
         /\ task'[j].pc = "engine" =>
                task'[j].config.database_connection = strip(conn_string[d])

\* C18: the resolution chooses the thread's bound connection if it is
\* present and active, else the user's default connection if it is present
\* and active, else it fails with the no-active-database error and returns
\* no config; the default being the stored one or, for a user who has none
\* stored, the earliest active connection, which the resolution stores.
C18_DatabaseChoice ==
    [][\A j \in Jobs : Resolves(j) =>
           ChoosesDb(j, DbToChoose(IF default_db # 0 THEN default_db
                                   ELSE FirstActiveDb(conn_active)))]_vars

\* C18 as stated, the default being the one stored when the resolution
\* starts.
C18_StoredDefaultOnly ==
    [][\A j \in Jobs : Resolves(j) => ChoosesDb(j, DbToChoose(default_db))]_vars

\* C18, its case: an execution of a thread bound to an inactive connection
\* has resolved to the user's default connection, which is another one.
C18_Witness ==
    /\ thread_db # 0
    /\ ~conn_active[thread_db]
    /\ default_db \notin {0, thread_db}
    /\ conn_active[default_db]
    /\ task[0].pc = "engine"
    /\ task[0].config.database_connection = strip(conn_string[default_db])

\* A model config that is active and whose API key is active.
Usable(m) == m # 0 /\ model_active[m] /\ key_active[ModelKey(m)]

\* The model config the resolution is to choose when the user's default is
\* `default`: the bound one if usable, else the default if usable, else
\* none (0).
ModelToChoose(default) ==
    IF Usable(thread_model) THEN thread_model
    ELSE IF Usable(default) THEN default
    ELSE 0

\* A resolution of job j, which has found a connection, that chooses model
\* config m (0: none): with none it raises the no-active-model error, with
\* one it does not and the config it returns is of m.
ChoosesModel(j, m) ==
    IF m = 0
    THEN /\ task'[j].pc = "except"
         /\ task'[j].exc.msg = NoActiveModel
         /\ task'[j].config = NoConfig
    ELSE /\ task'[j].exc.msg # NoActiveModel
         /\ task'[j].pc = "engine" =>
                task'[j].config.model_name = strip(model_name[m])

\* The config is of a model config whose API key is active.
KeyOfConfigActive(c) ==
    \E m \in ModelIds :
        /\ c.model_name = strip(model_name[m])
        /\ c.api_key = strip(api_key[ModelKey(m)])
        /\ key_active[ModelKey(m)]

\* C19: the resolution chooses the thread's bound model config if it is
\* present, active and of an active API key, else the user's default model
\* config under the same conditions, else it fails with the no-active-model
\* error; the default being the stored one or, for a user who has none
\* stored, the earliest usable model config, which the resolution stores.
\* The config it returns is never of a model whose API key is inactive.
C19_ModelChoice ==
    [][\A j \in Jobs :
           (Resolves(j) /\ task'[j].exc.msg # NoActiveDatabase) =>
               /\ ChoosesModel(j, ModelToChoose(
                      IF default_model # 0 THEN default_model
                      ELSE FirstActiveModel(model_active, key_active)))
               /\ task'[j].pc = "engine" => KeyOfConfigActive(task'[j].config)]_vars

\* C19 as stated, the default being the one stored when the resolution
\* starts.
C19_StoredDefaultOnly ==
    [][\A j \in Jobs :
           (Resolves(j) /\ task'[j].exc.msg # NoActiveDatabase) =>
               ChoosesModel(j, ModelToChoose(default_model))]_vars

\* C19, its case: an execution of a thread bound to an inactive model config
\* has resolved to the user's default model config, which is another one.
C19_Witness ==
    /\ thread_model # 0
    /\ ~model_active[thread_model]
    /\ default_model \notin {0, thread_model}
    /\ Usable(default_model)
    /\ task[0].pc = "engine"
    /\ task[0].config.model_name = strip(model_name[default_model])

\* The runtime config of the rows as they are stored now: of connection d
\* and model config m.
ConfigOfRows(d, m) ==
    SQLSaberRuntimeConfig(strip(conn_string[d]),
                          strip(model_name[m]),
                          strip(api_key[ModelKey(m)]),
                          IF strip(memory[d]) = <<>> THEN Nothing
                          ELSE Some(strip(memory[d])))

\* C20: every execution resolves its config from the rows as they are stored
\* when it resolves: with no active connection it fails with the
\* no-active-database error, and the config it gets is of rows that are
\* active now, with the texts they hold now.
C20_ResolvedFresh ==
    [][\A j \in Jobs : Resolves(j) =>
           /\ (\A d \in DbIds : ~conn_active[d]) =>
                  /\ task'[j].pc = "except"
                  /\ task'[j].exc.msg = NoActiveDatabase
           /\ task'[j].pc = "engine" =>
                  \E d \in DbIds, m \in ModelIds :
                      /\ conn_active[d]
                      /\ Usable(m)
                      /\ d = thread_db \/ ~(thread_db # 0 /\ conn_active[thread_db])
                      /\ m = thread_model \/ ~Usable(thread_model)
                      /\ task'[j].config = ConfigOfRows(d, m)]_vars

\* C20, its case: the first execution of the thread has completed, the
\* connection string, the memory, the model name and the API key have been
\* edited, and the execution of the second turn has resolved the new values.
C20_Witness ==
    /\ Truthy(content)
    /\ task[1].pc = "engine"
    /\ task[1].config =
           SQLSaberRuntimeConfig(<<"d">>, <<"p", ":", "n">>, <<"s">>, Some(<<"n">>))

\* The text has no blank at either end.
Trimmed(text) == text = <<>> \/ (text[1] # " " /\ text[Len(text)] # " ")

\* The text is blank: nothing but blanks.
IsBlank(text) == \A i \in 1 .. Len(text) : text[i] = " "

\* The errors of the fields of connection d and model config m that are
\* blank.
BlankFieldErrors(d, m) ==
    {e \in {EmptyDatabaseConnection, MissingApiKey, MissingModelName} :
        \/ e = EmptyDatabaseConnection /\ IsBlank(conn_string[d])
        \/ e = MissingApiKey /\ IsBlank(api_key[ModelKey(m)])
        \/ e = MissingModelName /\ IsBlank(model_name[m])}

\* C21: a config the resolution returns has a connection string, an API key
\* and a model name that are not empty and have no blank at either end, and
\* a memory that is None or a text of that kind; when a field of the chosen
\* rows is blank the resolution fails with the error of such a field, and
\* with the error of that field when it is the only one.
C21_ConfigTrimmed ==
    [][\A j \in Jobs : Resolves(j) =>
           LET c == task'[j].config
               d == DbToChoose(default_db)
               m == ModelToChoose(default_model)
           IN  /\ task'[j].pc = "engine" =>
                   /\ \A f \in {c.database_connection, c.api_key, c.model_name} :
                          f # <<>> /\ Trimmed(f)
                   /\ c.memory # Nothing =>
                          (c.memory[1] # <<>> /\ Trimmed(c.memory[1]))
                   /\ c.memory = Nothing <=> IsBlank(memory[d])
               /\ (d # 0 /\ m # 0 /\ BlankFieldErrors(d, m) # {}) =>
                   /\ task'[j].pc = "except"
                   /\ task'[j].config = NoConfig
                   /\ task'[j].exc.msg \in BlankFieldErrors(d, m)]_vars

\* C21, its case: the execution has resolved a config from rows whose texts
\* are padded with blanks, the memory included.
C21_Witness ==
    /\ conn_string[1] = <<" ", "c", " ">>
    /\ memory[1] = <<" ", "n", " ">>
    /\ model_name[1] = <<" ", "m", " ">>
    /\ api_key[1] = <<" ", "k", " ">>
    /\ task[0].pc = "engine"
    /\ task[0].config = SQLSaberRuntimeConfig(<<"c">>, <<"m">>, <<"k">>, Some(<<"n">>))

\* The error get_runtime_config_for_thread_id raises on the rows as they
\* are stored now, "" when it returns a config.
ResolverError ==
    get_runtime_config_for_thread_id(
        ensure_user_defaults(Settings, conn_active, model_active, key_active)).error

\* C22: an execution whose config resolution fails catches the resolver's
\* error without having invoked the engine or saved a message, and returns
\* in a step that writes ERROR with the resolver's text as error_message and
\* leaves the thread's content and messages as they are.
C22_ResolverFailure ==
    [][\A j \in Jobs :
           /\ (Resolves(j) /\ ResolverError # <<>>) =>
                  /\ task'[j].pc = "except"
                  /\ task'[j].exc = Exc("config", ResolverError)
                  /\ messages' = messages
                  /\ content' = content
           /\ (task[j].pc = "except" /\ task[j].exc.step = "config") =>
                  /\ task[j].events = <<>>
                  /\ task[j].handler = NewHandler
                  /\ \/ task'[j] = task[j]
                     \/ /\ Returns(j)
                        /\ status' = ERROR
                        /\ error_message' = task[j].exc.msg
                        /\ messages' = messages
                        /\ content' = content]_vars

\* C22, its case: the execution of the second turn has failed to resolve a
\* model and has returned; the thread is in ERROR with the resolver's text,
\* its messages are the two prompts and the one message of the first turn's
\* transcript is its content.
C22_Witness ==
    /\ task[1].pc = "returned"
    /\ status = ERROR
    /\ error_message \in {NoActiveDatabase, NoActiveModel}
    /\ Len(messages) = 2
    /\ Len(content.items) = 1

\* The document is given (not None) and does not match the transcript
\* schema: it is no list, or an element has not the shape of a ModelMessage.
Malformed(doc) == doc.type # "none" /\ ~ValidHistory(doc)

Persists(j) ==
    /\ task[j].pc = "engine"
    /\ task'[j] # task[j]
    /\ Len(messages') > Len(messages)

\* C25: an execution has written RUNNING before its aggregator saves any
\* message, and each such message is written while the thread's status is
\* RUNNING.
C25_WrittenWhileRunning ==
    [][\A j \in Jobs : Persists(j) => (task[j].ran /\ status = RUNNING)]_vars

\* The event job j's handler is passed in this step.
Handled(j) == Last(task'[j].events)

\* C26: on_part_delta saves no message and leaves the current kind as it
\* is: a text or reasoning delta appends its content_delta to the buffer,
\* and a delta of another kind or with an empty content_delta changes
\* nothing.
C26_DeltaOnlyBuffers ==
    [][\A j \in Jobs :
           (Handles(j) /\ Handled(j).ev = "PartDeltaEvent") =>
               /\ messages' = messages
               /\ task'[j].handler.kind = task[j].handler.kind
               /\ task'[j].handler.buffer =
                      IF Handled(j).kind \in {TextPart, ThinkingPart}
                      THEN task[j].handler.buffer \o Handled(j).content
                      ELSE task[j].handler.buffer
               /\ (Handled(j).kind \notin {TextPart, ThinkingPart}
                   \/ Handled(j).content = <<>>) =>
                      task'[j].handler = task[j].handler]_vars

\* C26, its case: two text deltas have followed a text part; the three
\* fragments are in the buffer and nothing but the prompt is saved.
C26_Witness ==
    /\ task[0].pc = "engine"
    /\ task[0].events = <<PartStart(TextPart, <<"T">>), PartDelta(TextPart, <<"t">>),
                          PartDelta(TextPart, <<"t">>)>>
    /\ task[0].handler = [buffer |-> <<"T", "t", "t">>, kind |-> TextPart]
    /\ Len(messages) = 1

\* The events on_event has a handler for.
HandledKinds == {"PartStartEvent", "PartDeltaEvent", "PartEndEvent",
                 "FunctionToolCallEvent", "FunctionToolResultEvent"}

\* The event is of a kind on_event has no handler for, or the start of a
\* part that is neither text nor reasoning.
Ignored(event) ==
    \/ event.ev \notin HandledKinds
    \/ event.ev = "PartStartEvent" /\ event.kind \notin {TextPart, ThinkingPart}

\* C27: an event of a kind without handler, and the start of a part that is
\* neither text nor reasoning, is passed over: the stream goes on, no message
\* is saved, the buffer and the current kind are as before.
C27_OtherEventsIgnored ==
    [][\A j \in Jobs :
           (/\ task[j].pc = "engine"
            /\ Len(task'[j].events) = Len(task[j].events) + 1
            /\ Ignored(Handled(j))) =>
               /\ task'[j].pc = "engine"
               /\ messages' = messages
               /\ task'[j].handler = task[j].handler]_vars

\* C27, its case: a final-result event and the start of a tool-call part
\* have arrived while a text unit is open; the unit is still open and
\* nothing but the prompt is saved.
C27_Witness ==
    /\ task[0].pc = "engine"
    /\ task[0].events = <<PartStart(TextPart, <<"T">>), FinalResult,
                          PartStart(ToolCallPart, <<>>)>>
    /\ task[0].handler = [buffer |-> <<"T">>, kind |-> TextPart]
    /\ Len(messages) = 1

\* C28: on_tool_result saves one tool_result message with tool_name and
\* result and does not flush: the buffer and the current kind are as before,
\* so the message of a unit that is open then follows the tool result.
C28_ToolResultNoFlush ==
    [][\A j \in Jobs :
           /\ (Handles(j) /\ Handled(j).ev = "FunctionToolResultEvent") =>
                  /\ messages' = Append(messages, Message(TOOL_RESULT,
                         [tool_name |-> Handled(j).tool,
                          result |-> Handled(j).content]))
                  /\ task'[j].handler = task[j].handler
           /\ (/\ FlushesAtEnd(j)
               /\ Len(messages') > Len(messages)
               /\ task[j].events # <<>>
               /\ Last(task[j].events).ev = "FunctionToolResultEvent") =>
                  /\ messages[Len(messages)].type = TOOL_RESULT
                  /\ messages'[Len(messages')].type \in {ASSISTANT, THINKING}]_vars

\* C28, its case: a tool result arrived while a text unit was open, and the
\* assistant message of that unit has been saved after the tool_result
\* message.
C28_Witness ==
    /\ task[0].pc = "complete"
    /\ task[0].events = <<PartStart(TextPart, <<"T">>), ToolResult>>
    /\ Len(messages) = 3
    /\ messages[2].type = TOOL_RESULT
    /\ messages[3] = Message(ASSISTANT, [text |-> <<"T">>])

\* C29: when the engine raises while the handler holds a buffer, the
\* buffer is not saved: neither the step in which the exception is caught
\* nor the step in which the execution writes ERROR and returns adds a
\* message, so the messages stay those saved before the failure.
C29_BufferNotSalvaged ==
    [][\A j \in Jobs :
           /\ EngineRaises(j) =>
                  /\ messages' = messages
                  /\ task'[j].handler = task[j].handler
           /\ (task[j].pc = "except" /\ task'[j] # task[j]) =>
                  /\ task'[j].pc = "returned"
                  /\ task'[j].handler = NewHandler
                  /\ messages' = messages]_vars

\* C29, its case: the engine raised after a tool call and the start of a
\* text part; the tool_call message is saved, the text is in the buffer of
\* the execution that is about to write ERROR.
C29_Witness ==
    /\ task[1].pc = "except"
    /\ task[1].exc.step = "engine"
    /\ task[1].handler = [buffer |-> <<"T">>, kind |-> TextPart]
    /\ Len(messages) = 3
    /\ messages[3].type = TOOL_CALL

\* C30: the execution of a second delivery of a task whose first execution
\* has left the thread COMPLETED or ERROR does not set the status back to
\* RUNNING and leaves status, content and error_message as they are.
C30_RedeliverySafe ==
    [][(task[1].pc \in ActivePc /\ task'[1] # task[1]) =>
           /\ status' # RUNNING
           /\ UNCHANGED <<status, content, error_message>>]_vars

\* The handler after it has handled the events `evs` in order from state h.
RECURSIVE HandlerAfter(_, _)
HandlerAfter(h, evs) ==
    IF evs = <<>> THEN h ELSE HandlerAfter(on_event(h, evs[1]).h, Tail(evs))

\* What an execution that runs alone persists for the stream `evs`: the
\* messages its events cause, and those of the terminal flush if the engine
\* returned.
Alone(evs, returned) ==
    Caused(NewHandler, evs)
        \o (IF returned THEN flush_buffer(HandlerAfter(NewHandler, evs)).out ELSE <<>>)

\* The rows of this thread and its executions.
ThisThread == <<threadVars, messages, task>>

\* C31: under every interleaving of the executions of two threads, a step
\* of one execution changes neither the rows and messages of the other
\* thread nor the other execution's handler; the messages each has persisted
\* under its thread are those its own stream causes in an execution that
\* runs alone, and the status it leaves is COMPLETED if its own engine
\* returned and ERROR if its own run raised.
C31_ThreadsIndependent ==
    [][/\ peer' # peer => UNCHANGED ThisThread
       /\ ThisThread' # ThisThread => peer' = peer
       /\ task[0].pc = "engine" => Persisted = Alone(task[0].events, FALSE)
       /\ Returns(0) =>
              /\ Persisted = Alone(task[0].events, task[0].pc = "complete")
              /\ status' = IF task[0].pc = "complete" THEN COMPLETED ELSE ERROR
       /\ peer.pc = "engine" => Tail(peer.messages) = Alone(peer.events, FALSE)
       /\ peer.pc = "returned" =>
              /\ Tail(peer.messages) = Alone(peer.events, peer.exc = NoExc)
              /\ peer.status = IF peer.exc = NoExc THEN COMPLETED ELSE ERROR]_vars

\* C31, its case: both executions are in their streams and each has
\* persisted messages under its thread, one more than the other.
C31_Witness ==
    /\ task[0].pc = "engine"
    /\ peer.pc = "engine"
    /\ Len(messages) = 2
    /\ Len(peer.messages) = 3

\* The rows of the thread, its messages and the executions are as they are
\* when there is no thread.
NothingCreated ==
    /\ ~exists
    /\ messages = <<>>
    /\ \A j \in Jobs : task[j] = NoTask

\* C32: create_thread has two outcomes. Either it creates no thread, no
\* message and defers nothing; or it creates one PENDING thread with empty
\* content and no error_message, bound to a connection that is active and to
\* a model config that is active with an active key, one user message
\* {text: prompt} with a non-blank prompt as the thread's only message, and
\* defers one execution with that prompt and no message history.
C32_CreateThreadOutcomes ==
    [][~exists =>
           /\ NothingCreated
           /\ \/ NothingCreated'
              \/ /\ exists'
                 /\ status' = PENDING
                 /\ content' = EmptyDict
                 /\ error_message' = <<>>
                 /\ thread_db' \in DbIds /\ conn_active'[thread_db']
                 /\ thread_model' \in ModelIds
                 /\ model_active'[thread_model']
                 /\ key_active'[ModelKey(thread_model')]
                 /\ Len(messages') = 1
                 /\ messages'[1].type = USER
                 /\ messages'[1].content.text # Blank
                 /\ task'[0] = Defer(messages'[1].content.text, NoDoc)
                 /\ \A j \in Jobs \ {0} : task'[j] = NoTask]_vars

\* C32, its case: create_thread has created the thread of a user who had
\* chosen no default, bound to the connection it stored as the default, and
\* the execution it deferred has not started.
C32_Witness ==
    /\ exists
    /\ status = PENDING
    /\ task[0].pc = "queued"
    /\ thread_db = 1
    /\ default_db = 1
    /\ Len(messages) = 1

\* continue_thread request r takes the step that defers its execution.
Defers(r) == req[r].pc = "msg" /\ req'[r].pc = "done"

\* C33: the except clause of an execution, which writes ERROR, leaves
\* Thread.content as it is, and a continuation that is deferred on a thread
\* whose last turn failed (its status is ERROR) passes the content that is
\* stored then as message_history.
C33_ErrorKeepsTranscript ==
    [][/\ \A j \in Jobs :
            (task[j].pc = "except" /\ task'[j] # task[j]) =>
                content' = content
       /\ \A r \in Reqs :
            (Defers(r) /\ status = ERROR) => task'[r].message_history = content]_vars

\* continue_thread request r, with a valid body, is answered or passes its
\* checks.
Checks(r) == req[r].pc = "new" /\ req'[r].pc # "new"

\* The thread's first execution has ended in ERROR: no transcript is stored.
FailedFirst == status = ERROR /\ ~Truthy(content)

\* C34 as stated: a continuation of a thread in ERROR whose content is
\* still empty is answered 400.
C34_Rejected400 ==
    [][\A r \in Reqs : (Checks(r) /\ FailedFirst) => req'[r].response = 400]_vars

\* C34, amended: continue_thread defers an execution only after it has read
\* a non-empty list as Thread.content, and passes what it read as
\* message_history. A continuation of a thread in ERROR whose content is
\* still empty is rejected with 400 or 409, with 409 whenever the user is
\* left with no default connection or no default model; it creates no
\* message and leaves the status, and no step changes the status, the
\* content or the messages of such a thread or defers an execution for it.
C34_ContinuationNeedsTranscript ==
    [][/\ \A r \in Reqs :
            /\ Defers(r) =>
                   /\ Truthy(req[r].content) /\ req[r].content.type = "list"
                   /\ task'[r] = Defer(req[r].prompt, req[r].content)
            /\ (Checks(r) /\ FailedFirst) =>
                   /\ req'[r].pc = "done"
                   /\ req'[r].response \in {400, 409}
                   /\ (default_db' = 0 \/ default_model' = 0) =>
                          req'[r].response = 409
       /\ FailedFirst =>
              /\ UNCHANGED <<status, content, messages>>
              /\ Active' = {}]_vars

\* C34, its case: the first execution has ended in ERROR, and a continuation
\* of the thread has been answered 400.
C34_Witness ==
    /\ FailedFirst
    /\ \E r \in Reqs : req[r].pc = "done" /\ req[r].response = 400

\* C35: every message after the prompt, which are the messages the handler
\* has persisted, is of type assistant, thinking, tool_call or tool_result
\* and never of type user; an assistant or thinking message has a non-empty
\* text; and as long as the content of every text or reasoning part and
\* delta that has arrived is empty, no assistant or thinking message is
\* persisted, whatever ends the units.
C35_HandlerMessageTypes ==
    /\ \A i \in 1 .. Len(Persisted) :
           /\ Persisted[i].type \in {ASSISTANT, THINKING, TOOL_CALL, TOOL_RESULT}
           /\ IsNarration(Persisted[i]) => Persisted[i].content.text # <<>>
    /\ (task[0].pc \in {"engine", "complete"} /\ Streamed(task[0].events) = <<>>) =>
           NarrationOf(Persisted) = <<>>

\* C35, its case: a text unit without content has been closed by its part
\* end and a reasoning unit without content by a tool call; the tool_call
\* message is the only one the handler has persisted.
C35_Witness ==
    /\ task[0].pc = "engine"
    /\ task[0].events = <<PartStart(TextPart, <<>>), PartEnd,
                          PartStart(ThinkingPart, <<>>), ToolCall>>
    /\ Len(Persisted) = 1
    /\ Persisted[1].type = TOOL_CALL

\* The message type of a unit of kind `kind`.
TypeOf(kind) == IF kind = ThinkingPart THEN THINKING ELSE ASSISTANT

\* C36: the start of a text or reasoning part of the kind of the open unit
\* saves no message, keeps the kind and appends the part's content to the
\* buffer; when a part end or a tool call follows two such starts, the one
\* message saved for them has the two contents concatenated as its text.
C36_SameKindStartMerges ==
    [][\A j \in Jobs :
           /\ (/\ Handles(j)
               /\ Handled(j).ev = "PartStartEvent"
               /\ Handled(j).kind \in {TextPart, ThinkingPart}
               /\ task[j].handler.kind = Handled(j).kind) =>
                  /\ messages' = messages
                  /\ task'[j].handler =
                         [buffer |-> task[j].handler.buffer \o Handled(j).content,
                          kind |-> Handled(j).kind]
           /\ (/\ task[j].pc = "engine"
               /\ Len(task[j].events) >= 3
               /\ task[j].events[1].ev = "PartStartEvent"
               /\ task[j].events[2].ev = "PartStartEvent"
               /\ task[j].events[1].kind \in {TextPart, ThinkingPart}
               /\ task[j].events[2].kind = task[j].events[1].kind
               /\ task[j].events[3].ev \in {"PartEndEvent", "FunctionToolCallEvent"}
               /\ task[j].events[1].content \o task[j].events[2].content # <<>>) =>
                  Persisted[1] =
                         Message(TypeOf(task[j].events[1].kind),
                                 [text |-> task[j].events[1].content
                                               \o task[j].events[2].content])]_vars

\* C36, its case: two reasoning parts have started one after the other and
\* a part end has followed; one thinking message holds both contents.
C36_Witness ==
    /\ task[0].pc = "engine"
    /\ task[0].events = <<PartStart(ThinkingPart, <<"R">>),
                          PartStart(ThinkingPart, <<"R">>), PartEnd>>
    /\ Persisted = <<Message(THINKING, [text |-> <<"R", "R">>])>>
    /\ task[0].handler = NewHandler

\* The user messages of the thread, in order.
IsUser(m) == m.type = USER
UserMessages == SelectSeq(messages, IsUser)

\* C37: when the handler of an execution persists a message, the user
\* message of the turn that deferred the execution is in the thread and is
\* the thread's last user message: the user message of a turn comes before
\* every message of its execution and after every message of the turns
\* before it.
C37_TurnsInOrder ==
    [][\A j \in Jobs :
           (/\ task[j].pc = "engine"
            /\ task'[j] # task[j]
            /\ Len(messages') > Len(messages)) =>
               /\ UserMessages # <<>>
               /\ Last(UserMessages).content.text = task[j].prompt]_vars

\* The model configs that are created.
ModelRows == {m \in ModelIds : ModelKey(m) # 0}

\* Every active model config references an active API key.
ActiveModelsHaveActiveKeys ==
    \A m \in ModelRows : model_active[m] => key_active[ModelKey(m)]

\* C38: after every sequence of add_model_config, update_model_config,
\* set_model_config_active and set_api_key_active requests, every active
\* model config references an active API key; a key is removed only when no
\* active model config references it, a model config is enabled only when
\* its key is active, and a model config is created with or switched to an
\* active key only.
C38_ActiveModelHasActiveKey ==
    [][/\ ActiveModelsHaveActiveKeys'
       /\ \A k \in DOMAIN key_active :
              (key_active[k] /\ ~key_active'[k]) =>
                  \A m \in ModelRows : ModelKey(m) = k => ~model_active[m]
       /\ \A m \in ModelIds :
              /\ (~model_active[m] /\ model_active'[m]) => key_active[model_key'[m]]
              /\ model_key'[m] # model_key[m] => key_active[model_key'[m]]]_vars

\* C38, its case: the second model config was created with the second key,
\* the first was switched to it, and the first key, which no active model
\* uses any more, was removed.
C38_Witness ==
    /\ ModelRows = ModelIds
    /\ \A m \in ModelIds : model_active[m] /\ ModelKey(m) = 2
    /\ ~key_active[1]
    /\ key_active[2]

\* The step is one of update_user_settings or changes nothing: the rows the
\* defaults refer to are as before.
RowsUnchanged == UNCHANGED <<conn_active, model_active, key_active, rowVars>>

\* C39: after every settings request, the default connection, when set, is
\* an active connection and the default model, when set, is an active model
\* config that is created; a request that removes the current default
\* leaves as default the earliest-created record that is still active (for
\* a model, with an active key), or none if there is none; and a default
\* that is set changes only when it is removed or when update_user_settings
\* stores another, so ensure_user_defaults, which every request but
\* set_api_key_active and update_model_config calls, keeps a set default.
C39_DefaultsAreActive ==
    [][/\ default_db' # 0 => conn_active'[default_db']
       /\ default_model' # 0 =>
              (model_key'[default_model'] # 0 /\ model_active'[default_model'])
       /\ (default_db # 0 /\ ~conn_active'[default_db]) =>
              default_db' = FirstActiveDb(conn_active')
       /\ (default_model # 0 /\ ~model_active'[default_model]) =>
              default_model' = FirstActiveModelOf(model_active', key_active', model_key')
       /\ (default_db # 0 /\ default_db' # default_db) =>
              (~conn_active'[default_db] \/ RowsUnchanged)
       /\ (default_model # 0 /\ default_model' # default_model) =>
              (~model_active'[default_model] \/ RowsUnchanged)
       /\ LET s == ensure_user_defaults(Settings, conn_active, model_active,
                                         key_active)
          IN  /\ default_db # 0 => s.db = default_db
              /\ default_model # 0 => s.model = default_model]_vars

\* C39, its case: the first connection and the first model config, which
\* were the defaults, have been removed, and the second of each, the only
\* active ones, are the defaults.
C39_Witness ==
    /\ ~conn_active[1] /\ conn_active[2] /\ default_db = 2
    /\ ~model_active[1] /\ model_active[2] /\ default_model = 2

====
